---- MODULE Spec2Model ----
(***************************************************************************)
(* A model of the beernews aggregation pipeline:                           *)
(*   - the Metrics Ledger        (scripts/scraper_metrics.py)              *)
(*   - the source fetchers and the run controller (scripts/scraper.py)     *)
(*   - the first-seen history of data loading     (data.py)                *)
(* Each Python dict is a function whose domain is the set of its keys,     *)
(* each list a sequence, each optional attribute a sequence of length 0/1. *)
(* datetime.now() is the logical clock `now`.                              *)
(***************************************************************************)
EXTENDS Integers, Sequences, FiniteSets, TLC

VARIABLES
    metrics,        \* ScraperMetrics.metrics: [sources, runs]
    current_run,    \* ScraperMetrics.current_run: <<>> when the attribute is absent
    metrics_file,   \* data/scraper_metrics.json: <<>> when absent, else <<document>>
    summary,        \* the last get_summary() result: <<>> when none was made
    now,            \* logical clock read by datetime.now()
    calls,          \* number of ledger API calls made by the driver
    attempted,      \* history: sources attempted in the current process
    err_log,        \* history: every record_source_error call, per source name
    started_log,    \* history: started_at of every run opened by record_run_start
    ended_log,      \* history: started_at of every run closed by record_run_end
    last_call,      \* history: the last ledger API call and the ledger before it
    plan,           \* the fetcher invocations main() makes, in order
    environ,        \* os.environ: the names of the variables that are set
    pc,             \* position of main(): idle, fetch, untappd, dedup, save, end, done, crashed
    idx,            \* index in plan of the next fetcher invocation
    all_posts,      \* main(): all_posts
    unique_posts,   \* main(): unique_posts
    data_file,      \* data/dynamic_updates.json: <<>> when absent, else <<document>>
    run_no,         \* number of runs of main() started
    cache_file,     \* data/scraper_cache.json: <<>> when absent, else <<document>>
    fetched,        \* history: the fetcher invocations of the current run
    today,          \* wall clock of data loading, in half days
    beer_details_file,  \* data/beer_details.json: <<>> when absent, else <<details in dict order>>
    beer_history_file,  \* data/beer_history.json: <<>> when absent, else <<document>>
    beers,          \* the list the last load_beers_from_untappd() returned
    dynamic_beers,  \* the beers the last load_dynamic_data() returned
    loads,          \* number of data loads made
    first_obs,      \* history: identity key -> time of the first load that saw it
    venues,         \* the venues the Untappd loop of main() goes through
    vidx,           \* index in venues of the next venue of the loop
    scraping,       \* scrape_untappd_checkins under way: <<>> or <<[checkins, i, posts, lookups, errors_before]>>
    beer_cache,     \* main(): beer_cache, the details in dict order
    untappd_cache,  \* main(): untappd_cache, venue id -> Untappd id
    untappd_venues_file,    \* data/untappd_venues.json: venue id -> Untappd id
    auto_venues_file,       \* data/auto_discovered_venues.json: <<>> when absent
    adding,                 \* the add_configured_venue calls: [name, venue_id, step, data]
    editing                 \* the tools at work on beer_details.json: [tool, beers]

ledger_vars == <<metrics, current_run, metrics_file, summary, now, calls, attempted,
                 err_log, started_log, ended_log, last_call>>

run_vars == <<plan, environ, pc, idx, all_posts, unique_posts, data_file,
              run_no, cache_file, fetched>>

untappd_vars == <<venues, vidx, scraping, beer_cache, untappd_cache, untappd_venues_file,
                  auto_venues_file, adding>>

load_vars == <<today, beer_details_file, beer_history_file, beers, dynamic_beers, loads,
               first_obs, editing, untappd_vars>>

vars == <<ledger_vars, run_vars, load_vars>>

(***************************************************************************)
(* Bounds of the model and constants of the program.                       *)
(***************************************************************************)
MaxErrors == 10
MaxRuns == 50
MaxCalls == 5
MaxErrorCalls == 15
MaxOtherErrorCalls == 2
MaxRunStarts == 52
MaxAbandoned == 1
MaxIdleEnds == 2
MaxMainRuns == 1
MaxLoads == 2
MaxToday == 76
MaxEdits == 1
MaxManualAdds == 1
MaxDemoUpdates == 1
MaxRequests == 2
NewWindowDays == 7
KeepWindowDays == 30
MaxMatches == 3
MaxReturned == 5
HttpOk == 200
StrugglingAttempts == 5

LedgerSources == {"batch-brewing-website", "4-pines-website"}
ItemCounts == {0, 3}

EmptyMap == [x \in {} |-> 0]

Min(a, b) == IF a < b THEN a ELSE b

\* Python's xs[-n:] for n > 0.
LastN(xs, n) == IF Len(xs) <= n THEN xs ELSE SubSeq(xs, Len(xs) - n + 1, Len(xs))

\* Python's xs[:n].
FirstN(xs, n) == IF Len(xs) <= n THEN xs ELSE SubSeq(xs, 1, n)

(***************************************************************************)
(* Metrics Ledger.  `self` is [metrics, current_run].                      *)
(***************************************************************************)
has_current_run(self) == Len(self.current_run) = 1

\* ScraperMetrics._load: the stored document, or a fresh ledger.
load_metrics(file) == IF Len(file) = 1 THEN file[1] ELSE ([sources |-> EmptyMap, runs |-> <<>>])

NewSourceMetricCountsCreation(technique) ==
    [technique |-> technique, attempts |-> 1, successes |-> 0,
     items_found |-> 0, errors |-> <<>>]

NewSourceMetric(technique) ==
    [technique |-> technique, attempts |-> 0, successes |-> 0,
     items_found |-> 0, errors |-> <<>>]

record_run_start(self, t) ==
    [self EXCEPT !.current_run = <<[started_at |-> t, sources |-> EmptyMap]>>]

record_source_attempt(self, source_name, technique) ==
    LET s0 == self.metrics.sources
        s1 == IF source_name \in DOMAIN s0
                THEN s0
                ELSE (source_name :> NewSourceMetric(technique)) @@ s0
        s2 == [s1 EXCEPT ![source_name].attempts = @ + 1]
        cr == IF has_current_run(self)
                 /\ source_name \notin DOMAIN self.current_run[1].sources
                THEN <<[self.current_run[1] EXCEPT
                          !.sources = (source_name :>
                                         [success |-> FALSE, items |-> 0,
                                          error |-> "None"]) @@ @]>>
                ELSE self.current_run
    IN  [metrics |-> [self.metrics EXCEPT !.sources = s2], current_run |-> cr]

record_source_success(self, source_name, items_found) ==
    LET s0 == self.metrics.sources
        s1 == IF source_name \in DOMAIN s0
                THEN [s0 EXCEPT ![source_name].successes = @ + 1,
                                ![source_name].items_found = @ + items_found]
                ELSE s0
        cr == IF has_current_run(self)
                 /\ source_name \in DOMAIN self.current_run[1].sources
                THEN <<[self.current_run[1] EXCEPT
                          !.sources[source_name].success = TRUE,
                          !.sources[source_name].items = items_found]>>
                ELSE self.current_run
    IN  [metrics |-> [self.metrics EXCEPT !.sources = s1], current_run |-> cr]

\* The slice that keeps the error list bounded: errors[-10:].
TrimErrorsKeepsOldest(errors) == FirstN(errors, MaxErrors)

TrimErrors(errors) == LastN(errors, MaxErrors)

record_source_error(self, source_name, error, t) ==
    LET s0 == self.metrics.sources
        s1 == IF source_name \in DOMAIN s0
                THEN [s0 EXCEPT ![source_name].errors =
                        TrimErrors(Append(@, [time |-> t, error |-> error]))]
                ELSE s0
        cr == IF has_current_run(self)
                 /\ source_name \in DOMAIN self.current_run[1].sources
                THEN <<[self.current_run[1] EXCEPT
                          !.sources[source_name].error = error]>>
                ELSE self.current_run
    IN  [metrics |-> [self.metrics EXCEPT !.sources = s1], current_run |-> cr]

ClosedRun(run, total_items, t) ==
    [started_at |-> run.started_at, sources |-> run.sources,
     ended_at |-> t, total_items |-> total_items]

\* The slice that keeps the run history bounded: runs[-50:].
TrimRunsKeepsOldest(runs) == FirstN(runs, MaxRuns)

TrimRuns(runs) == LastN(runs, MaxRuns)

record_run_end(self, total_items, t) ==
    IF has_current_run(self)
      THEN [metrics |-> [self.metrics EXCEPT !.runs =
                TrimRuns(Append(@, ClosedRun(self.current_run[1], total_items, t)))],
            current_run |-> <<>>]
      ELSE self

\* success_rate > 50, with success_rate = successes / attempts * 100, or 0
\* when there was no attempt.
StatusIgnoresRate(attempts, successes) ==
    IF attempts > StrugglingAttempts THEN "struggling" ELSE "new"

source_status(attempts, successes) ==
    IF attempts > 0 /\ successes * 100 > 50 * attempts THEN "active"
    ELSE IF attempts > StrugglingAttempts THEN "struggling"
    ELSE "new"

RECURSIVE SumOver(_, _)
SumOver(sources, field) ==
    IF DOMAIN sources = {} THEN 0
    ELSE LET k == CHOOSE x \in DOMAIN sources : TRUE
         IN  sources[k][field] + SumOver([x \in DOMAIN sources \ {k} |-> sources[x]], field)

\* ScraperMetrics.get_summary: per source the lifetime counts and the status,
\* and the totals over the sources.
get_summary(self) ==
    [sources |->
        [s \in DOMAIN self.metrics.sources |->
            [technique |-> self.metrics.sources[s].technique,
             attempts |-> self.metrics.sources[s].attempts,
             successes |-> self.metrics.sources[s].successes,
             items_found |-> self.metrics.sources[s].items_found,
             status |-> source_status(self.metrics.sources[s].attempts,
                                      self.metrics.sources[s].successes)]],
     overall |->
        [total_sources |-> Cardinality(DOMAIN self.metrics.sources),
         total_attempts |-> SumOver(self.metrics.sources, "attempts"),
         total_successes |-> SumOver(self.metrics.sources, "successes"),
         total_items |-> SumOver(self.metrics.sources, "items_found")]]

Self == [metrics |-> metrics, current_run |-> current_run]

(***************************************************************************)
(* Ledger API calls made directly by a driver (any order, any number).     *)
(***************************************************************************)
Call(op, source, arg) ==
    [op |-> op, source |-> source, arg |-> arg, before |-> metrics.sources,
     was_attempted |-> source \in attempted]

RecordRunStart ==
    /\ LET r == record_run_start(Self, now + 1)
       IN  /\ metrics' = r.metrics
           /\ current_run' = r.current_run
    /\ now' = now + 1
    /\ calls' = calls + 1
    /\ started_log' = Append(started_log, now + 1)
    /\ last_call' = Call("run_start", "", 0)
    /\ UNCHANGED <<metrics_file, summary, attempted, err_log, ended_log, run_vars, load_vars>>

RecordSourceAttempt(s) ==
    /\ LET r == record_source_attempt(Self, s, "website-generic")
       IN  /\ metrics' = r.metrics
           /\ current_run' = r.current_run
    /\ attempted' = attempted \cup {s}
    /\ calls' = calls + 1
    /\ last_call' = Call("attempt", s, 0)
    /\ UNCHANGED <<metrics_file, summary, now, err_log, started_log, ended_log, run_vars, load_vars>>

RecordSourceSuccess(s, n) ==
    /\ LET r == record_source_success(Self, s, n)
       IN  /\ metrics' = r.metrics
           /\ current_run' = r.current_run
    /\ calls' = calls + 1
    /\ last_call' = Call("success", s, n)
    /\ UNCHANGED <<metrics_file, summary, now, attempted, err_log, started_log, ended_log, run_vars, load_vars>>

RecordSourceError(s, msg) ==
    /\ LET r == record_source_error(Self, s, msg, now + 1)
       IN  /\ metrics' = r.metrics
           /\ current_run' = r.current_run
    /\ now' = now + 1
    /\ err_log' = [err_log EXCEPT ![s] =
            Append(@, [time |-> now + 1, error |-> msg,
                       known |-> s \in DOMAIN metrics.sources])]
    /\ calls' = calls + 1
    /\ last_call' = Call("error", s, 0)
    /\ UNCHANGED <<metrics_file, summary, attempted, started_log, ended_log, run_vars, load_vars>>

RecordRunEnd(total_items) ==
    /\ LET r == record_run_end(Self, total_items, now + 1)
       IN  /\ metrics' = r.metrics
           /\ current_run' = r.current_run
    /\ now' = now + 1
    /\ ended_log' = IF has_current_run(Self)
                      THEN Append(ended_log, current_run[1].started_at)
                      ELSE ended_log
    /\ calls' = calls + 1
    /\ last_call' = Call("run_end", "", total_items)
    /\ UNCHANGED <<metrics_file, summary, attempted, err_log, started_log, run_vars, load_vars>>

GetSummary ==
    /\ summary' = <<get_summary(Self)>>
    /\ calls' = calls + 1
    /\ last_call' = Call("summary", "", 0)
    /\ UNCHANGED <<metrics, current_run, metrics_file, now, attempted, err_log,
                   started_log, ended_log, run_vars, load_vars>>

(***************************************************************************)
(* A ledger document an earlier process can have left in storage: one      *)
(* source attempted once, succeeding with two items, in one closed run.    *)
(***************************************************************************)
StoredLedger ==
    [sources |-> ("batch-brewing-website" :>
                    [technique |-> "website-generic", attempts |-> 1,
                     successes |-> 1, items_found |-> 2, errors |-> <<>>]),
     runs |-> <<[started_at |-> 0, ended_at |-> 0, total_items |-> 2,
                 sources |-> ("batch-brewing-website" :>
                    [success |-> TRUE, items |-> 2, error |-> "None"])]>>]

\* Another one: a source attempted five times, two of them with success.
BusyLedger ==
    [sources |-> ("batch-brewing-website" :>
                    [technique |-> "website-generic", attempts |-> 5,
                     successes |-> 2, items_found |-> 6, errors |-> <<>>]),
     runs |-> <<>>]

\* ScraperMetrics.__init__ in a new process, over the stored document `file`.
LedgerInit(file) ==
    /\ metrics_file = file
    /\ summary = <<>>
    /\ metrics = load_metrics(file)
    /\ current_run = <<>>
    /\ now = 0
    /\ calls = 0
    /\ attempted = {}
    /\ err_log = [s \in LedgerSources |-> <<>>]
    /\ started_log = <<>>
    /\ ended_log = <<>>
    /\ last_call = [op |-> "init", source |-> "", arg |-> 0,
                    before |-> load_metrics(file).sources, was_attempted |-> FALSE]

\* main() is not running: the ledger is driven directly.
NoMain ==
    /\ plan = <<>>
    /\ environ = {}
    /\ pc = "idle"
    /\ idx = 1
    /\ all_posts = <<>>
    /\ unique_posts = <<>>
    /\ data_file = <<>>
    /\ run_no = 0
    /\ cache_file = <<>>
    /\ fetched = <<>>

\* The Untappd loop has no venue; its stores are absent.
NoUntappd ==
    /\ venues = <<>>
    /\ vidx = 1
    /\ scraping = <<>>
    /\ beer_cache = <<>>
    /\ untappd_cache = EmptyMap
    /\ untappd_venues_file = <<>>
    /\ auto_venues_file = <<>>
    /\ adding = <<>>

\* No data load is made: the stores of data.py are absent.
NoLoad ==
    /\ today = 0
    /\ beer_details_file = <<>>
    /\ beer_history_file = <<>>
    /\ beers = <<>>
    /\ dynamic_beers = <<>>
    /\ loads = 0
    /\ first_obs = EmptyMap
    /\ editing = <<>>
    /\ NoUntappd

InitLedger == NoMain /\ NoLoad /\ \E file \in {<<>>, <<StoredLedger>>, <<BusyLedger>>} : LedgerInit(file)

NextLedger ==
    /\ calls < MaxCalls
    /\ \/ RecordRunStart
       \/ \E s \in LedgerSources : RecordSourceAttempt(s)
       \/ \E s \in LedgerSources, n \in ItemCounts : RecordSourceSuccess(s, n)
       \/ \E s \in LedgerSources, msg \in {"timeout", "HTTP 500"} :
            RecordSourceError(s, msg)
       \/ \E n \in ItemCounts : RecordRunEnd(n)
       \/ GetSummary

SpecLedger == InitLedger /\ [][NextLedger]_vars

(***************************************************************************)
(* Error recording alone: one source receives up to MaxErrorCalls errors,  *)
(* every other source up to MaxOtherErrorCalls.                            *)
(***************************************************************************)
NextErrors ==
    \/ \E s \in LedgerSources : s \notin attempted /\ RecordSourceAttempt(s)
    \/ \E s \in LedgerSources :
          /\ Len(err_log[s]) < IF s = "batch-brewing-website" THEN MaxErrorCalls
                                 ELSE MaxOtherErrorCalls
          /\ RecordSourceError(s, "timeout")

SpecErrors == InitLedger /\ [][NextErrors]_vars

(***************************************************************************)
(* Run bookkeeping alone: runs are opened and closed; a run may be opened  *)
(* again before it was closed (it is then abandoned).                      *)
(***************************************************************************)

NextHistory ==
    \/ /\ Len(started_log) < MaxRunStarts
       /\ Len(current_run) = 1 => (Len(started_log) - Len(ended_log) - Len(current_run)) < MaxAbandoned
       /\ RecordRunStart
    \/ /\ Len(current_run) = 1 \/ now < MaxIdleEnds
       /\ RecordRunEnd(3)

InitHistory == NoMain /\ NoLoad /\ LedgerInit(<<>>)

SpecHistory == InitHistory /\ [][NextHistory]_vars

(***************************************************************************)
(* Identity resolution (data.py).  Strings are those of the program; their *)
(* lower-casing, trimming, slugs and substring tests are tabulated.        *)
(***************************************************************************)

\* str.lower()
Lower(s) ==
    CASE s = "Young Henrys" -> "young henrys"
      [] s = "Batch Brewing Company" -> "batch brewing company"
      [] s = "Hawkes Brewing Co" -> "hawkes brewing co"
      [] s = "Garage Project" -> "garage project"
      [] s = "Stone & Wood" -> "stone & wood"
      [] s = "" -> ""
      [] s = " " -> " "
      [] s = "JB & Sons Manly" -> "jb & sons manly"
      [] s = "JB and Sons" -> "jb and sons"
      [] s = "Wayward" -> "wayward"
      [] s = "  Sauce Brewing Co " -> "  sauce brewing co "
      [] s = "Bay Rd Brewing" -> "bay rd brewing"
      [] s = "Brewing" -> "brewing"
      [] s = "The Union Hotel Newtown" -> "the union hotel newtown"
      [] s = "Mountain Culture" -> "mountain culture"
      [] s = "Newtown, NSW" -> "newtown, nsw"
      [] s = "Marrickville, NSW" -> "marrickville, nsw"
      [] s = "Wellington, New Zealand" -> "wellington, new zealand"
      [] s = "Byron Bay, NSW" -> "byron bay, nsw"

\* str.strip()
Strip(s) ==
    CASE s = "young henrys" -> "young henrys"
      [] s = "batch brewing company" -> "batch brewing company"
      [] s = "hawkes brewing co" -> "hawkes brewing co"
      [] s = "garage project" -> "garage project"
      [] s = "stone & wood" -> "stone & wood"
      [] s = "" -> ""
      [] s = " " -> ""
      [] s = "jb & sons manly" -> "jb & sons manly"
      [] s = "jb and sons" -> "jb and sons"
      [] s = "wayward" -> "wayward"
      [] s = "  sauce brewing co " -> "sauce brewing co"
      [] s = "bay rd brewing" -> "bay rd brewing"
      [] s = "brewing" -> "brewing"
      [] s = "the union hotel newtown" -> "the union hotel newtown"
      [] s = "mountain culture" -> "mountain culture"

\* s.replace(' ', '-').replace('&', 'and')
Slug(s) ==
    CASE s = "young henrys" -> "young-henrys"
      [] s = "batch brewing company" -> "batch-brewing-company"
      [] s = "hawkes brewing co" -> "hawkes-brewing-co"
      [] s = "garage project" -> "garage-project"
      [] s = "stone & wood" -> "stone-and-wood"
      [] s = "" -> ""
      [] s = " " -> "-"
      [] s = "jb & sons manly" -> "jb-and-sons-manly"
      [] s = "jb and sons" -> "jb-and-sons"
      [] s = "wayward" -> "wayward"
      [] s = "  sauce brewing co " -> "--sauce-brewing-co-"
      [] s = "sauce brewing co" -> "sauce-brewing-co"
      [] s = "bay rd brewing" -> "bay-rd-brewing"
      [] s = "brewing" -> "brewing"
      [] s = "the union hotel newtown" -> "the-union-hotel-newtown"
      [] s = "mountain culture" -> "mountain-culture"

\* data.py: BREWERY_NAME_TO_VENUE_ID
BREWERY_NAME_TO_VENUE_ID ==
    (  "young henrys" :> "young-henrys"
       @@ "batch brewing company" :> "batch-brewing"
       @@ "wayward brewing" :> "wayward-brewing"
       @@ "grifter brewing" :> "grifter-brewing"
       @@ "grifter brewing co" :> "grifter-brewing"
       @@ "the rocks brewing" :> "the-rocks-brewing"
       @@ "the rocks brewing co" :> "the-rocks-brewing"
       @@ "bracket brewing" :> "bracket-brewing"
       @@ "future brewing" :> "future-brewing"
       @@ "future brewing co" :> "future-brewing"
       @@ "range brewing" :> "range-brewing"
       @@ "mountain culture beer co" :> "mountain-culture"
       @@ "mountain culture" :> "mountain-culture"
       @@ "kicks brewing" :> "kicks-brewing"
       @@ "4 pines brewing" :> "4-pines"
       @@ "4 pines brewing co" :> "4-pines"
       @@ "4 pines" :> "4-pines"
       @@ "white bay beer co" :> "white-bay"
       @@ "white bay" :> "white-bay"
       @@ "white bay brewing" :> "white-bay"
       @@ "mountain culture redfern" :> "mountain-culture-redfern"
       @@ "mountain culture emu plains" :> "mountain-culture-emu-plains"
       @@ "seeker brewing" :> "seeker-brewing"
       @@ "bay road brewing" :> "bay-road-brewing"
       @@ "bay rd brewing" :> "bay-road-brewing"
       @@ "ekim brewing" :> "ekim-brewing"
       @@ "philter brewing" :> "philter-brewing"
       @@ "sauce brewing" :> "sauce-brewing"
       @@ "sauce brewing co" :> "sauce-brewing")

\* data.py: SYDNEY_VENUES, in directory order; untappd_id is "" for None.
SYDNEY_VENUES ==
    <<[id |-> "young-henrys", name |-> "Young Henrys",
       instagram_handle |-> "@younghenrys", untappd_id |-> "",
       type |-> "brewery"],
      [id |-> "batch-brewing", name |-> "Batch Brewing Company",
       instagram_handle |-> "@batchbrewingcompany", untappd_id |-> "",
       type |-> "brewery"],
      [id |-> "wayward-brewing", name |-> "Wayward Brewing Co",
       instagram_handle |-> "@waywardbrewing", untappd_id |-> "",
       type |-> "brewery"],
      [id |-> "grifter-brewing", name |-> "Grifter Brewing Co",
       instagram_handle |-> "@grifterbrewing", untappd_id |-> "",
       type |-> "brewery"],
      [id |-> "the-rocks-brewing", name |-> "The Rocks Brewing Co",
       instagram_handle |-> "@therocksbrewing", untappd_id |-> "",
       type |-> "brewery"],
      [id |-> "bracket-brewing", name |-> "Bracket Brewing",
       instagram_handle |-> "@bracketbrewing", untappd_id |-> "",
       type |-> "brewery"],
      [id |-> "future-brewing", name |-> "Future Brewing Co",
       instagram_handle |-> "@futurebrewing", untappd_id |-> "",
       type |-> "brewery"],
      [id |-> "range-brewing", name |-> "Range Brewing",
       instagram_handle |-> "@rangebrewing", untappd_id |-> "",
       type |-> "brewery"],
      [id |-> "mountain-culture", name |-> "Mountain Culture Beer Co",
       instagram_handle |-> "@mountainculturebeerco", untappd_id |-> "",
       type |-> "brewery"],
      [id |-> "kicks-brewing", name |-> "Kicks Brewing",
       instagram_handle |-> "@kicksbrewing", untappd_id |-> "",
       type |-> "brewery"],
      [id |-> "4-pines", name |-> "4 Pines Brewing",
       instagram_handle |-> "@4pinesbeer", untappd_id |-> "",
       type |-> "brewery"],
      [id |-> "white-bay", name |-> "White Bay Beer Co",
       instagram_handle |-> "@whitebaybeerco", untappd_id |-> "",
       type |-> "brewery"],
      [id |-> "mountain-culture-redfern", name |-> "Mountain Culture Redfern",
       instagram_handle |-> "@mountainculturebeerco", untappd_id |-> "",
       type |-> "brewery"],
      [id |-> "mountain-culture-emu-plains", name |-> "Mountain Culture Emu Plains",
       instagram_handle |-> "@mountainculturebeerco", untappd_id |-> "",
       type |-> "brewery"],
      [id |-> "seeker-brewing", name |-> "Seeker Brewing",
       instagram_handle |-> "@seekerbrew", untappd_id |-> "",
       type |-> "brewery"],
      [id |-> "bay-road-brewing", name |-> "Bay Road Brewing",
       instagram_handle |-> "@bayrdbrewing", untappd_id |-> "",
       type |-> "brewery"],
      [id |-> "ekim-brewing", name |-> "Ekim Brewing",
       instagram_handle |-> "@ekimbrewing", untappd_id |-> "",
       type |-> "brewery"],
      [id |-> "philter-brewing", name |-> "Philter Brewing",
       instagram_handle |-> "@philterbrewing", untappd_id |-> "",
       type |-> "brewery"],
      [id |-> "sauce-brewing", name |-> "Sauce Brewing",
       instagram_handle |-> "@saucebrewing", untappd_id |-> "",
       type |-> "brewery"],
      [id |-> "blood-orange-liquor", name |-> "Blood Orange Liquor Bar",
       instagram_handle |-> "@bloodorangeliquorbar", untappd_id |-> "",
       type |-> "bar"],
      [id |-> "the-tilbury", name |-> "The Tilbury",
       instagram_handle |-> "@thetilbury", untappd_id |-> "",
       type |-> "bar"],
      [id |-> "ddc", name |-> "Dulcie's Dove Club",
       instagram_handle |-> "@dulciesdoveclub", untappd_id |-> "",
       type |-> "bar"],
      [id |-> "basketball-liquor", name |-> "Basketball Liquor",
       instagram_handle |-> "@basketballliquor", untappd_id |-> "",
       type |-> "bar"],
      [id |-> "tiva", name |-> "Tiva",
       instagram_handle |-> "@tivabarsyd", untappd_id |-> "",
       type |-> "bar"],
      [id |-> "hotel-sweeneys", name |-> "Hotel Sweeney's",
       instagram_handle |-> "@hotelsweeneys", untappd_id |-> "107565",
       type |-> "bar"],
      [id |-> "jb-and-sons", name |-> "JB & Sons",
       instagram_handle |-> "@jbandsons", untappd_id |-> "",
       type |-> "bar"],
      [id |-> "jb-and-sons-manly", name |-> "JB & Sons Manly",
       instagram_handle |-> "@jbandsonsmanly", untappd_id |-> "",
       type |-> "bar"],
      [id |-> "noble-hops", name |-> "Noble Hops",
       instagram_handle |-> "@noblehopsbar", untappd_id |-> "",
       type |-> "bar"],
      [id |-> "union-hotel", name |-> "The Union Hotel",
       instagram_handle |-> "@theunionhotelnewtown", untappd_id |-> "",
       type |-> "bar"],
      [id |-> "bitter-phew", name |-> "Bitter Phew",
       instagram_handle |-> "@bitterphew", untappd_id |-> "",
       type |-> "bar"],
      [id |-> "harts-pub", name |-> "Harts Pub",
       instagram_handle |-> "@hartspub", untappd_id |-> "",
       type |-> "bar"]>>

\* venue.name.lower()
VenueNameLower(s) ==
    CASE s = "Young Henrys" -> "young henrys"
      [] s = "Batch Brewing Company" -> "batch brewing company"
      [] s = "Wayward Brewing Co" -> "wayward brewing co"
      [] s = "Grifter Brewing Co" -> "grifter brewing co"
      [] s = "The Rocks Brewing Co" -> "the rocks brewing co"
      [] s = "Bracket Brewing" -> "bracket brewing"
      [] s = "Future Brewing Co" -> "future brewing co"
      [] s = "Range Brewing" -> "range brewing"
      [] s = "Mountain Culture Beer Co" -> "mountain culture beer co"
      [] s = "Kicks Brewing" -> "kicks brewing"
      [] s = "4 Pines Brewing" -> "4 pines brewing"
      [] s = "White Bay Beer Co" -> "white bay beer co"
      [] s = "Mountain Culture Redfern" -> "mountain culture redfern"
      [] s = "Mountain Culture Emu Plains" -> "mountain culture emu plains"
      [] s = "Seeker Brewing" -> "seeker brewing"
      [] s = "Bay Road Brewing" -> "bay road brewing"
      [] s = "Ekim Brewing" -> "ekim brewing"
      [] s = "Philter Brewing" -> "philter brewing"
      [] s = "Sauce Brewing" -> "sauce brewing"
      [] s = "Blood Orange Liquor Bar" -> "blood orange liquor bar"
      [] s = "The Tilbury" -> "the tilbury"
      [] s = "Dulcie's Dove Club" -> "dulcie's dove club"
      [] s = "Basketball Liquor" -> "basketball liquor"
      [] s = "Tiva" -> "tiva"
      [] s = "Hotel Sweeney's" -> "hotel sweeney's"
      [] s = "JB & Sons" -> "jb & sons"
      [] s = "JB & Sons Manly" -> "jb & sons manly"
      [] s = "Noble Hops" -> "noble hops"
      [] s = "The Union Hotel" -> "the union hotel"
      [] s = "Bitter Phew" -> "bitter phew"
      [] s = "Harts Pub" -> "harts pub"

\* The pairs <<a, b>> of these strings with `a in b` (Python substring test).
SubstringPairs ==
    {<<"young henrys", "young henrys">>, <<"batch brewing company", "batch brewing company">>,
     <<"", "young henrys">>, <<"", "batch brewing company">>,
     <<"", "wayward brewing co">>, <<"", "grifter brewing co">>,
     <<"", "the rocks brewing co">>, <<"", "bracket brewing">>,
     <<"", "future brewing co">>, <<"", "range brewing">>,
     <<"", "mountain culture beer co">>, <<"", "kicks brewing">>,
     <<"", "4 pines brewing">>, <<"", "white bay beer co">>,
     <<"", "mountain culture redfern">>, <<"", "mountain culture emu plains">>,
     <<"", "seeker brewing">>, <<"", "bay road brewing">>,
     <<"", "ekim brewing">>, <<"", "philter brewing">>,
     <<"", "sauce brewing">>, <<"", "blood orange liquor bar">>,
     <<"", "the tilbury">>, <<"", "dulcie's dove club">>,
     <<"", "basketball liquor">>, <<"", "tiva">>,
     <<"", "hotel sweeney's">>, <<"", "jb & sons">>,
     <<"", "jb & sons manly">>, <<"", "noble hops">>,
     <<"", "the union hotel">>, <<"", "bitter phew">>,
     <<"", "harts pub">>, <<"jb & sons", "jb & sons manly">>,
     <<"jb & sons manly", "jb & sons manly">>, <<"wayward", "wayward brewing co">>,
     <<"sauce brewing", "sauce brewing co">>, <<"brewing", "batch brewing company">>,
     <<"brewing", "wayward brewing co">>, <<"brewing", "grifter brewing co">>,
     <<"brewing", "the rocks brewing co">>, <<"brewing", "bracket brewing">>,
     <<"brewing", "future brewing co">>, <<"brewing", "range brewing">>,
     <<"brewing", "kicks brewing">>, <<"brewing", "4 pines brewing">>,
     <<"brewing", "seeker brewing">>, <<"brewing", "bay road brewing">>,
     <<"brewing", "ekim brewing">>, <<"brewing", "philter brewing">>,
     <<"brewing", "sauce brewing">>, <<"the union hotel", "the union hotel newtown">>,
     <<"mountain culture", "mountain culture beer co">>,
     <<"mountain culture", "mountain culture redfern">>,
     <<"mountain culture", "mountain culture emu plains">>}

\* a in b
Contains(a, b) == a = b \/ <<a, b>> \in SubstringPairs

\* The loop over SYDNEY_VENUES: the id of the first venue from i on whose
\* lower-cased name contains brewery_lower or is contained in it.
RECURSIVE venue_loop(_, _)
venue_loop(brewery_lower, i) ==
    IF i > Len(SYDNEY_VENUES) THEN <<>>
    ELSE LET venue_name == VenueNameLower(SYDNEY_VENUES[i].name)
         IN  IF Contains(venue_name, brewery_lower) \/ Contains(brewery_lower, venue_name)
               THEN <<SYDNEY_VENUES[i].id>>
               ELSE venue_loop(brewery_lower, i + 1)

SlugKeepsAmpersand(brewery_lower) == brewery_lower

\* brewery_lower.replace(' ', '-').replace('&', 'and')
fallback_id(brewery_lower) == Slug(brewery_lower)

map_brewery_to_venue_id(brewery_name) ==
    IF brewery_name = "" THEN "unknown"
    ELSE LET brewery_lower == Strip(Lower(brewery_name))
         IN  IF brewery_lower \in DOMAIN BREWERY_NAME_TO_VENUE_ID
               THEN BREWERY_NAME_TO_VENUE_ID[brewery_lower]
             ELSE IF venue_loop(brewery_lower, 1) # <<>>
               THEN venue_loop(brewery_lower, 1)[1]
             ELSE fallback_id(brewery_lower)

(***************************************************************************)
(* Texts that pages and captions hold.  A string of the model standing for *)
(* a Python string writes the beer-mug emoji U+1F37A as :beer: ; lengths,  *)
(* keyword tests and MD5 digests are those of the Python string.           *)
(***************************************************************************)
T1 == "Fresh Hazy IPA out now"
T2 == "Fresh  Hazy IPA out now"
T3 == "fresh hazy ipa out now"
T4 == "New release: Oat Stout"
T5 == "Opening hours"

\* len(text)
TextLen(t) ==
    CASE t = T1 -> 22
      [] t = T2 -> 23
      [] t = T3 -> 22
      [] t = T4 -> 22
      [] t = T5 -> 13

\* any(keyword in text.lower() ...) of scrape_website_mountain_culture
HasMountainKeyword(t) == t \in {T1, T2, T3, T4}

\* any(kw in text_lower for kw in keywords) of scrape_generic_website
HasGenericKeyword(t) == t \in {T1, T2, T3, T4}

\* any(kw in caption_lower for kw in beer_keywords) of scrape_instagram_apify
HasBeerKeyword(t) == t \in {T1, T2, T3, T4}

\* f"<beer-mug> {match.strip()} - scraped from website"
BatchContent(t) ==
    CASE t = T1 -> ":beer: Fresh Hazy IPA out now - scraped from website"
      [] t = T2 -> ":beer: Fresh  Hazy IPA out now - scraped from website"
      [] t = T3 -> ":beer: fresh hazy ipa out now - scraped from website"
      [] t = T4 -> ":beer: New release: Oat Stout - scraped from website"
      [] t = T5 -> ":beer: Opening hours - scraped from website"

\* f"<beer-mug> {text}"
MountainContent(t) ==
    CASE t = T1 -> ":beer: Fresh Hazy IPA out now"
      [] t = T2 -> ":beer: Fresh  Hazy IPA out now"
      [] t = T3 -> ":beer: fresh hazy ipa out now"
      [] t = T4 -> ":beer: New release: Oat Stout"
      [] t = T5 -> ":beer: Opening hours"

\* hashlib.md5(content.encode()).hexdigest()
get_content_hash(content) ==
    CASE content = "Fresh Hazy IPA out now" -> "2bbe2b5385e3bd51782a581de3045456"
      [] content = ":beer: Fresh Hazy IPA out now" -> "b83de7340a5fc40a1065f8453d2b4488"
      [] content = ":beer: Fresh Hazy IPA out now - scraped from website" -> "3cb2b51da344c54b14adfe618d275eac"
      [] content = "Fresh  Hazy IPA out now" -> "4e1501108d22bbfce0865e733a8011f9"
      [] content = ":beer: Fresh  Hazy IPA out now" -> "e9e50f072f1b9ab1e340b1ab25d40409"
      [] content = ":beer: Fresh  Hazy IPA out now - scraped from website" -> "a637596499a41a082baaf614eba39f88"
      [] content = "fresh hazy ipa out now" -> "375dc1494a21e31229273a955de3e21a"
      [] content = ":beer: fresh hazy ipa out now" -> "a04c77097d683d1d862a5ba2c60d503d"
      [] content = ":beer: fresh hazy ipa out now - scraped from website" -> "bb8dd54430a7a53d5a773c17e5c7112f"
      [] content = "New release: Oat Stout" -> "1bb6ce05494efa8fa4ab105924ef2349"
      [] content = ":beer: New release: Oat Stout" -> "b6fee08f94e4aa749f4882db75e80969"
      [] content = ":beer: New release: Oat Stout - scraped from website" -> "03b69ff56b1bdac3d4d26ce4403a9fb8"
      [] content = "Opening hours" -> "80a0c205cd57b22fca7f174253870300"
      [] content = ":beer: Opening hours" -> "a74de58ccb7fd6496f384eb7647401d2"
      [] content = ":beer: Opening hours - scraped from website" -> "5da7b8cb7b463ecfed296f3450f61c54"
      [] content = ":beer: Sam is drinking Newtowner by Young Henrys\n:clipboard: Pale Ale - Australian" -> "1b093d9da146c52c3829a397c90fa526"
      [] content = ":beer: Sam is drinking Newtowner by Young Henrys" -> "68f2ccc66eaeb18a45ef54999214d6c9"
      [] content = ":beer: Sam is drinking Elsie by Batch Brewing Company\n:clipboard: Stout - Milk" -> "cecbbb0e42fda3667a07aaf809dc92db"
      [] content = ":beer: Sam is drinking Elsie by Batch Brewing Company" -> "91e3ae10617317e45ed7b5a21922bdf7"
      [] content = ":beer: Sam is drinking Hawkes Lager by Hawkes Brewing Co\n:clipboard: Lager - Pale" -> "85a7e4e27bf38d4bf24afca3bb5fc69e"
      [] content = ":beer: Sam is drinking Hawkes Lager by Hawkes Brewing Co" -> "9d81d9954a624d4e13c70593c4dafb4a"
      [] content = ":beer: Sam is drinking Hawkes Pale by Hawkes Brewing Co\n:clipboard: Pale Ale - Australian" -> "3cebb980c591d4e3a6182cc233c00684"
      [] content = ":beer: Sam is drinking Hawkes Pale by Hawkes Brewing Co" -> "26a8be2b8c7da428778f4b882c9b5002"
      [] content = ":beer: Sam is drinking Hawkes IPA by Hawkes Brewing Co\n:clipboard: IPA - American" -> "660ac701404f94571dc18747d51f5762"
      [] content = ":beer: Sam is drinking Hawkes IPA by Hawkes Brewing Co" -> "41823b2a18a6544c79bf2aebe810dde7"
      [] content = ":beer: Sam is drinking Hapi Daze by Garage Project\n:clipboard: Pale Ale - New Zealand" -> "b2b3d877cbc3542b72b4a9a03a8512b1"
      [] content = ":beer: Sam is drinking Hapi Daze by Garage Project" -> "31ef1b1c995e0dc39b93365ba5a52de1"
      [] content = ":beer: Sam is drinking Pacific Ale by Stone & Wood\n:clipboard: Pale Ale - Australian" -> "7f310594fc7aeae2e1d89b5a79ab6da0"
      [] content = ":beer: Sam is drinking Pacific Ale by Stone & Wood" -> "14f8d00a761a1b490494e080a2a97c50"
      [] content = ":beer: Sam is drinking Tap Beer" -> "9f9b11c766677bed9c14c989d489dfa1"
      [] content = ":beer: Sam is drinking Hazy IPA by Young Henrys\n:clipboard: IPA - New England / Hazy" -> "d702ab6eb12370734f53cda19dcc0d77"
      [] content = ":beer: Sam is drinking Hazy IPA by Young Henrys" -> "4886677647cdbd03c166ead5a3f01d9d"
      [] content = ":beer: Sam is drinking Oat Stout\n:clipboard: Stout - Oatmeal" -> "9639d38c417a6882882323a2e915eb21"
      [] content = ":beer: Sam is drinking Oat Stout" -> "7618c8525e60f696ceaa2fc128882d56"
      [] content = "Loving the new hazy from Young Henrys" -> "2153d8e8d53ba1038101e2050cfa071d"
      [] content = "[STORY] Loving the new hazy from Young Henrys" -> "ec02ba4d8b72d0afcb3a240bfaa60730"
      [] content = "Fresh drop from @younghenrys today" -> "ec43892c02bd986dba4fb9466efa9988"
      [] content = "[STORY] Fresh drop from @younghenrys today" -> "47f33101e29848acc400c4514b1e2a93"

(***************************************************************************)
(* Posts.  `posted` is <<>> when the post has no posted_at.                *)
(***************************************************************************)
Post(venue_id, platform, content, posted) ==
    [venue_id |-> venue_id, platform |-> platform, content |-> content,
     posted |-> posted]

\* What a fetcher hands back, with the ledger calls it made.
Outcome(self, returned, ledger_calls, raised, all_failed) ==
    [self |-> self, returned |-> returned, calls |-> ledger_calls,
     raised |-> raised, all_failed |-> all_failed]

\* An HTTP exchange: the request raised (timeout, connection error), or a
\* page came back with a status and the texts its markup yields.
Raise(error) == [kind |-> "raise", status |-> 0, texts |-> <<>>, error |-> error]
Page(status, texts) == [kind |-> "page", status |-> status, texts |-> texts, error |-> ""]

(***************************************************************************)
(* scrape_website_batch_brewing: one request; resp.texts holds the matches *)
(* of the two patterns, <<matches1, matches2>>.                            *)
(***************************************************************************)
BatchPosts(matches) ==
    [i \in 1..Len(FirstN(matches, MaxMatches)) |->
        Post("batch-brewing", "website", BatchContent(matches[i]), <<>>)]

scrape_website_batch_brewing(self, resp, t) ==
    LET source_name == "batch-brewing-website"
        a == record_source_attempt(self, source_name, "website-beautifulsoup")
        posts == BatchPosts(resp.texts[1]) \o BatchPosts(resp.texts[2])
    IN  IF resp.kind = "raise"
          THEN Outcome(record_source_error(a, source_name, resp.error, t), <<>>,
                       <<"attempt", "error">>, TRUE, TRUE)
          ELSE Outcome(record_source_success(a, source_name, Len(posts)), posts,
                       <<"attempt", "success">>, FALSE, resp.status # HttpOk)

(***************************************************************************)
(* scrape_website_mountain_culture: up to three paths, stopping at the     *)
(* first that leaves posts non-empty; a raising request is skipped.        *)
(***************************************************************************)
RECURSIVE mountain_parse(_, _, _, _)
mountain_parse(texts, i, url, posts) ==
    IF i > Len(texts) THEN posts
    ELSE LET text == texts[i]
         IN  IF HasMountainKeyword(text) /\ 10 < TextLen(text) /\ TextLen(text) < 200
               THEN mountain_parse(texts, i + 1, url,
                        Append(posts, Post("mountain-culture", "website",
                                           MountainContent(text), <<>>)))
               ELSE mountain_parse(texts, i + 1, url, posts)

RECURSIVE mountain_paths(_, _, _)
mountain_paths(resps, i, posts) ==
    IF i > Len(resps) THEN posts
    ELSE IF resps[i].kind = "raise" THEN mountain_paths(resps, i + 1, posts)
    ELSE LET found == mountain_parse(resps[i].texts, 1, i, posts)
         IN  IF found # <<>> THEN found ELSE mountain_paths(resps, i + 1, found)

AllFailed(resps) ==
    \A i \in 1..Len(resps) : resps[i].kind = "raise" \/ resps[i].status # HttpOk

\* The slice of the posts a website fetcher returns: posts[:5].
Returned(posts) == FirstN(posts, MaxReturned)

scrape_website_mountain_culture(self, resps) ==
    LET source_name == "mountain-culture-website"
        a == record_source_attempt(self, source_name, "website-beautifulsoup")
        posts == mountain_paths(resps, 1, <<>>)
    IN  Outcome(record_source_success(a, source_name, Len(posts)), Returned(posts),
                <<"attempt", "success">>, FALSE, AllFailed(resps))

(***************************************************************************)
(* scrape_generic_website: up to ten paths; a raising request and a        *)
(* non-200 response are skipped; a text already collected is not added.    *)
(***************************************************************************)
WebsiteSource(venue_id) ==
    CASE venue_id = "4-pines" -> "4-pines-website"
      [] venue_id = "white-bay" -> "white-bay-website"
      [] venue_id = "wayward-brewing" -> "wayward-brewing-website"
      [] venue_id = "grifter-brewing" -> "grifter-brewing-website"
      [] venue_id = "the-rocks-brewing" -> "the-rocks-brewing-website"
      [] venue_id = "bracket-brewing" -> "bracket-brewing-website"
      [] venue_id = "young-henrys" -> "young-henrys-website"

RECURSIVE generic_parse(_, _, _, _)
generic_parse(venue_id, texts, i, posts) ==
    IF i > Len(texts) THEN posts
    ELSE LET text == texts[i]
             \* text[:280]: every text of the model is shorter
             content == text
         IN  IF /\ HasGenericKeyword(text)
                /\ 15 < TextLen(text) /\ TextLen(text) < 300
                /\ ~ \E k \in 1..Len(posts) : posts[k].content = content
               THEN generic_parse(venue_id, texts, i + 1,
                        Append(posts, Post(venue_id, "website", content, <<>>)))
               ELSE generic_parse(venue_id, texts, i + 1, posts)

RECURSIVE generic_paths(_, _, _, _)
generic_paths(venue_id, resps, i, posts) ==
    IF i > Len(resps) THEN posts
    ELSE IF resps[i].kind = "raise" THEN generic_paths(venue_id, resps, i + 1, posts)
    ELSE IF resps[i].status # HttpOk THEN generic_paths(venue_id, resps, i + 1, posts)
    ELSE LET found == generic_parse(venue_id, resps[i].texts, 1, posts)
         IN  IF found # <<>> THEN found
             ELSE generic_paths(venue_id, resps, i + 1, found)

scrape_generic_website(self, venue_id, resps) ==
    LET source_name == WebsiteSource(venue_id)
        a == record_source_attempt(self, source_name, "website-generic")
        posts == generic_paths(venue_id, resps, 1, <<>>)
    IN  Outcome(record_source_success(a, source_name, Len(posts)), Returned(posts),
                <<"attempt", "success">>, FALSE, AllFailed(resps))

(***************************************************************************)
(* scrape_instagram_apify.  resp.items are the dataset items; the call or  *)
(* the iteration raises after resp.fail_after items were handed out        *)
(* (-1: it does not raise).  An item is [caption, media, posted]; posted   *)
(* is <<>> when the item has no timestamp.                                 *)
(***************************************************************************)
InstagramSource(handle) ==
    CASE handle = "@younghenrys" -> "instagram-younghenrys"
      [] handle = "@batchbrewingcompany" -> "instagram-batchbrewingcompany"
      [] handle = "@waywardbrewing" -> "instagram-waywardbrewing"
      [] handle = "@grifterbrewing" -> "instagram-grifterbrewing"
      [] handle = "@therocksbrewing" -> "instagram-therocksbrewing"
      [] handle = "@bracketbrewing" -> "instagram-bracketbrewing"
      [] handle = "@futurebrewing" -> "instagram-futurebrewing"
      [] handle = "@rangebrewing" -> "instagram-rangebrewing"
      [] handle = "@mountainculturebeerco" -> "instagram-mountainculturebeerco"
      [] handle = "@kicksbrewing" -> "instagram-kicksbrewing"
      [] handle = "@4pinesbeer" -> "instagram-4pinesbeer"
      [] handle = "@whitebaybeerco" -> "instagram-whitebaybeerco"
      [] handle = "@seekerbrew" -> "instagram-seekerbrew"
      [] handle = "@bayrdbrewing" -> "instagram-bayrdbrewing"
      [] handle = "@ekimbrewing" -> "instagram-ekimbrewing"
      [] handle = "@philterbrewing" -> "instagram-philterbrewing"
      [] handle = "@saucebrewing" -> "instagram-saucebrewing"
      [] handle = "@bloodorangeliquorbar" -> "instagram-bloodorangeliquorbar"
      [] handle = "@thetilbury" -> "instagram-thetilbury"
      [] handle = "@dulciesdoveclub" -> "instagram-dulciesdoveclub"
      [] handle = "@basketballliquor" -> "instagram-basketballliquor"
      [] handle = "@tivabarsyd" -> "instagram-tivabarsyd"
      [] handle = "@hotelsweeneys" -> "instagram-hotelsweeneys"
      [] handle = "@jbandsons" -> "instagram-jbandsons"
      [] handle = "@jbandsonsmanly" -> "instagram-jbandsonsmanly"
      [] handle = "@noblehopsbar" -> "instagram-noblehopsbar"
      [] handle = "@theunionhotelnewtown" -> "instagram-theunionhotelnewtown"
      [] handle = "@bitterphew" -> "instagram-bitterphew"
      [] handle = "@hartspub" -> "instagram-hartspub"

\* cutoff_date = datetime.now() - timedelta(days=14)
ApifyCutoffDays == 14
MetaCutoffDays == 7

\* An item's posted is <<[age, tz]>>: the timestamp is `age` days old, and
\* tz tells that it carries a 'Z' or an offset.  fromisoformat then returns
\* an aware datetime, its comparison with the naive cutoff_date raises
\* TypeError, and the bare except lets the item through.
ApifyAccepts(item) ==
    /\ item.caption # ""
    /\ \/ item.posted = <<>>
       \/ item.posted[1].tz
       \/ ~(item.posted[1].age > ApifyCutoffDays)
    /\ \/ HasBeerKeyword(item.caption)
       \/ item.media /\ TextLen(item.caption) > 10

\* The loop over the items: the post of an accepted item has caption[:500]
\* (every caption of the model is shorter) and timestamp_str.
RECURSIVE apify_items(_, _, _, _)
apify_items(items, i, stop, posts) ==
    LET \* item.get('timestamp', datetime.now().isoformat()): an item without
        \* a timestamp is posted now, and "now" is a naive time.
        timestamp_str(item) ==
            IF item.posted = <<>> THEN <<[age |-> 0, tz |-> FALSE]>>
            ELSE item.posted
    IN  IF i > stop THEN posts
        ELSE IF ApifyAccepts(items[i])
          THEN apify_items(items, i + 1, stop,
                   Append(posts, Post("None", "instagram", items[i].caption,
                                      timestamp_str(items[i]))))
          ELSE apify_items(items, i + 1, stop, posts)

scrape_instagram_apify(self, handle, token, resp, t) ==
    LET source_name == InstagramSource(handle)
        a == record_source_attempt(self, source_name, "instagram-apify")
        posts == apify_items(resp.items, 1, Len(resp.items), <<>>)
        raises == resp.fail_after >= 0 /\ resp.fail_after <= Len(resp.items)
        \* The posts collected when the except clause is reached: the
        \* function returns `posts` as it stands.
        collected == apify_items(resp.items, 1, resp.fail_after, <<>>)
    IN  IF ~token
          THEN Outcome(record_source_error(a, source_name,
                                           "No APIFY_API_TOKEN configured", t),
                       <<>>, <<"attempt", "error">>, FALSE, FALSE)
        ELSE IF raises
          THEN Outcome(record_source_error(a, source_name, resp.error, t),
                       collected, <<"attempt", "error">>, TRUE, TRUE)
          ELSE Outcome(record_source_success(a, source_name, Len(posts)), posts,
                       <<"attempt", "success">>, FALSE, FALSE)

(***************************************************************************)
(* imginn_scraper.py.  A response is a raised exception or a page with its *)
(* items; an item is [caption, time], time being <<>> when the item has no *)
(* time element and <<text>> otherwise.  The fetchers record no metrics.   *)
(***************************************************************************)
\* any(kw in caption.lower() for kw in beer_keywords)
HasImginnKeyword(caption) ==
    CASE caption = "Loving the new hazy from Young Henrys" -> TRUE
      [] caption = "Fresh drop from @younghenrys today" -> TRUE
      [] caption = "Weekend plans sorted" -> FALSE
      [] caption = "" -> FALSE

\* The age in days of the datetime that parse_relative_time returns.
parse_relative_time(time_text) ==
    CASE time_text = "5h ago" -> 0
      [] time_text = "2d ago" -> 2
      [] time_text = "3w ago" -> 21
      [] time_text = "yesterday" -> 0

\* f"[STORY] {caption[:400]}"
StoryContent(caption) ==
    CASE caption = "Loving the new hazy from Young Henrys" ->
           "[STORY] Loving the new hazy from Young Henrys"
      [] caption = "Fresh drop from @younghenrys today" ->
           "[STORY] Fresh drop from @younghenrys today"

\* cutoff_date = datetime.now() - timedelta(days=7)
ImginnCutoffDays == 7

scrape_imginn_stories(resp) ==
    LET Age(item) == IF item.time = <<>> THEN 0 ELSE parse_relative_time(item.time[1])
        Keep(item) == item.caption # "" /\ HasImginnKeyword(item.caption)
        kept == SelectSeq(resp.items, Keep)
    IN  IF resp.kind = "raise" \/ resp.status # HttpOk THEN <<>>
        ELSE [i \in 1..Len(kept) |->
                 Post("None", "instagram-story", StoryContent(kept[i].caption),
                      <<[age |-> Age(kept[i]), tz |-> FALSE]>>)]

scrape_imginn_posts(resp) ==
    LET Age(item) == IF item.time = <<>> THEN 0 ELSE parse_relative_time(item.time[1])
        Keep(item) == /\ ~(Age(item) > ImginnCutoffDays)
                      /\ HasImginnKeyword(item.caption)
        kept == SelectSeq(resp.items, Keep)
    IN  IF resp.kind = "raise" \/ resp.status # HttpOk THEN <<>>
        ELSE [i \in 1..Len(kept) |->
                 Post("None", "instagram", kept[i].caption,
                      <<[age |-> Age(kept[i]), tz |-> FALSE]>>)]

\* main(): post['venue_id'] = venue.id for every post of the venue's handle.
SetVenue(posts, venue_id) ==
    [i \in 1..Len(posts) |-> [posts[i] EXCEPT !.venue_id = venue_id]]

\* Stories first, then posts; every item gets the venue_id handed in.
scrape_all_imginn_content(stories_resp, posts_resp, venue_id) ==
    SetVenue(scrape_imginn_stories(stories_resp) \o scrape_imginn_posts(posts_resp),
             venue_id)

\* main(), enthusiast accounts: the id of the first venue of SYDNEY_VENUES
\* whose handle without '@', or whose name without spaces and '&', is in
\* the lower-cased content; "" when there is none.
detect_venue(content) ==
    CASE content = "Loving the new hazy from Young Henrys" -> ""
      [] content = "[STORY] Loving the new hazy from Young Henrys" -> ""
      [] content = "Fresh drop from @younghenrys today" -> "young-henrys"
      [] content = "[STORY] Fresh drop from @younghenrys today" -> "young-henrys"

(***************************************************************************)
(* The Untappd fetcher (scripts/scraper.py).  A checkin of a venue page is *)
(* [beer_url, beer_name, brewery_name], beer_url "" when the checkin has   *)
(* no beer link; the details of a beer page are a BeerData record.         *)
(***************************************************************************)
BeerData(url, name, brewery, brewery_location, style) ==
    [url |-> url, name |-> name, brewery |-> brewery,
     brewery_location |-> brewery_location, style |-> style]

Checkin(beer_url, beer_name, brewery_name) ==
    [beer_url |-> beer_url, beer_name |-> beer_name, brewery_name |-> brewery_name]

\* is_sydney_suburb: sydney_keywords
sydney_keywords ==
    {"sydney", "nsw", "new south wales", "marrickville", "newtown",
     "alexandria", "camperdown", "enmore", "surry hills", "crows nest",
     "rozelle", "broookvale", "petersham", "woolloomooloo", "manly",
     "balmain", "glebe", "redfern", "annandale", "leichhardt",
     "stanmore", "summer hill", "dulwich hill", "haberfield", "ashfield",
     "croydon", "rockdale", "kogarah", "hurstville", "sutherland",
     "parramatta", "liverpool", "blacktown", "penrith", "chatswood",
     "north sydney", "mosman", "bondi", "coogee", "maroubra",
     "randwick", "paddington", "darlinghurst", "potts point", "pyrmont",
     "ultimo", "haymarket", "the rocks", "wynyard", "circular quay"}

\* The keywords kw with `kw in location_lower`.
KeywordsIn(location_lower) ==
    CASE location_lower = "" -> {}
      [] location_lower = "newtown, nsw" -> {"nsw", "newtown"}
      [] location_lower = "marrickville, nsw" -> {"nsw", "marrickville"}
      [] location_lower = "wellington, new zealand" -> {}
      [] location_lower = "byron bay, nsw" -> {"nsw"}

is_sydney_suburb(location_text) ==
    /\ location_text # ""
    /\ \E kw \in sydney_keywords : kw \in KeywordsIn(Lower(location_text))

\* {v.id for v in SYDNEY_VENUES}
existing_ids == {SYDNEY_VENUES[i].id : i \in 1..Len(SYDNEY_VENUES)}

\* brewery_name.lower().replace(' ', '-').replace('&', 'and')
brewery_slug(brewery_name) == Slug(Lower(brewery_name))

\* The dict add_new_sydney_venue loads: {} when the file is absent.
load_auto_venues(file) == IF Len(file) = 1 THEN file[1] ELSE EmptyMap

NewVenue(brewery_name, brewery_location, t) ==
    [name |-> brewery_name, location |-> brewery_location, discovered_at |-> t,
     status |-> "pending_review"]

NeverKnown(auto_venues, brewery_id) == FALSE

\* "if brewery_id in auto_venues: return"
already_known(auto_venues, brewery_id) == brewery_id \in DOMAIN auto_venues

\* The file after add_new_sydney_venue(brewery_name, brewery_location) at t.
\* When open() of the file raises (access_ok is FALSE), the exception is
\* caught, a warning is printed and the file stays as it was.
add_new_sydney_venue(file, brewery_name, brewery_location, t, access_ok) ==
    LET auto_venues == load_auto_venues(file)
        brewery_id == brewery_slug(brewery_name)
    IN  IF ~access_ok \/ already_known(auto_venues, brewery_id)
          THEN file
          ELSE <<(brewery_id :> NewVenue(brewery_name, brewery_location, t))
                 @@ auto_venues>>

\* What the detail page of a beer yields when its markup is parsed in full.
BeerPage(beer_url) ==
    CASE beer_url = "https://untappd.com/b/young-henrys-newtowner/1" ->
           BeerData(beer_url, "Newtowner", "Young Henrys",
                    "Newtown, NSW", "Pale Ale - Australian")
      [] beer_url = "https://untappd.com/b/batch-elsie/2" ->
           BeerData(beer_url, "Elsie", "Batch Brewing Company",
                    "Marrickville, NSW", "Stout - Milk")
      [] beer_url = "https://untappd.com/b/hawkes-lager/3" ->
           BeerData(beer_url, "Hawkes Lager", "Hawkes Brewing Co",
                    "Marrickville, NSW", "Lager - Pale")
      [] beer_url = "https://untappd.com/b/hawkes-pale/4" ->
           BeerData(beer_url, "Hawkes Pale", "Hawkes Brewing Co",
                    "Marrickville, NSW", "Pale Ale - Australian")
      [] beer_url = "https://untappd.com/b/hawkes-ipa/7" ->
           BeerData(beer_url, "Hawkes IPA", "Hawkes Brewing Co",
                    "Marrickville, NSW", "IPA - American")
      [] beer_url = "https://untappd.com/b/garage-project-hapi-daze/5" ->
           BeerData(beer_url, "Hapi Daze", "Garage Project",
                    "Wellington, New Zealand", "Pale Ale - New Zealand")
      [] beer_url = "https://untappd.com/b/stone-and-wood-pacific-ale/6" ->
           BeerData(beer_url, "Pacific Ale", "Stone & Wood",
                    "Byron Bay, NSW", "Pale Ale - Australian")
      \* two pages of one beer, and a page without a brewery element
      [] beer_url = "https://untappd.com/b/hazy-ipa/1" ->
           BeerData(beer_url, "Hazy IPA", "Young Henrys",
                    "Newtown, NSW", "IPA - New England / Hazy")
      [] beer_url = "https://untappd.com/b/hazy-ipa/2" ->
           BeerData(beer_url, "Hazy IPA", "Young Henrys",
                    "Newtown, NSW", "IPA - New England / Hazy")
      [] beer_url = "https://untappd.com/b/oat-stout/3" ->
           BeerData(beer_url, "Oat Stout", "", "", "Stout - Oatmeal")

\* scrape_untappd_beer_details(beer_url) at t: beer_data is <<>> for the {}
\* of the except branch; registered tells what became of the producer.
\* mode: the page parses in full ("full"); it does, and the open() of
\* auto_discovered_venues.json raises ("unsaved"); the page yields no field
\* ("empty"); the request raises ("raise").
scrape_untappd_beer_details(beer_url, mode, file, t) ==
    LET beer_data == IF mode \in {"full", "unsaved"} THEN BeerPage(beer_url)
                     ELSE BeerData(beer_url, "", "", "", "")
        brewery_id == brewery_slug(beer_data.brewery)
        candidate == /\ brewery_id \notin existing_ids
                     /\ is_sydney_suburb(beer_data.brewery_location)
    IN  IF mode = "raise"
          THEN [beer_data |-> <<>>, auto_venues_file |-> file, registered |-> "none"]
          ELSE [beer_data |-> <<beer_data>>,
                auto_venues_file |->
                    IF candidate
                      THEN add_new_sydney_venue(file, beer_data.brewery,
                                                beer_data.brewery_location, t,
                                                mode # "unsaved")
                      ELSE file,
                registered |->
                    IF ~candidate THEN "none"
                    ELSE IF mode = "unsaved" THEN "failed"
                    ELSE IF already_known(load_auto_venues(file), brewery_id)
                      THEN "known" ELSE "added"]

\* "beer_url in beer_cache" and beer_cache[beer_url]
InCache(cache, beer_url) == \E i \in 1..Len(cache) : cache[i].url = beer_url

Cached(cache, beer_url) ==
    cache[CHOOSE i \in 1..Len(cache) : cache[i].url = beer_url]

\* The content of the post of a checkin: user, beer, brewery, and the style
\* of the details when there is one.
UntappdContent(beer_name, brewery_name, style) ==
    CASE beer_name = "Newtowner" /\ style = "Pale Ale - Australian" ->
           ":beer: Sam is drinking Newtowner by Young Henrys\n:clipboard: Pale Ale - Australian"
      [] beer_name = "Newtowner" /\ style = "" ->
           ":beer: Sam is drinking Newtowner by Young Henrys"
      [] beer_name = "Elsie" /\ style = "Stout - Milk" ->
           ":beer: Sam is drinking Elsie by Batch Brewing Company\n:clipboard: Stout - Milk"
      [] beer_name = "Elsie" /\ style = "" ->
           ":beer: Sam is drinking Elsie by Batch Brewing Company"
      [] beer_name = "Hawkes Lager" /\ style = "Lager - Pale" ->
           ":beer: Sam is drinking Hawkes Lager by Hawkes Brewing Co\n:clipboard: Lager - Pale"
      [] beer_name = "Hawkes Lager" /\ style = "" ->
           ":beer: Sam is drinking Hawkes Lager by Hawkes Brewing Co"
      [] beer_name = "Hawkes Pale" /\ style = "Pale Ale - Australian" ->
           ":beer: Sam is drinking Hawkes Pale by Hawkes Brewing Co\n:clipboard: Pale Ale - Australian"
      [] beer_name = "Hawkes Pale" /\ style = "" ->
           ":beer: Sam is drinking Hawkes Pale by Hawkes Brewing Co"
      [] beer_name = "Hawkes IPA" /\ style = "IPA - American" ->
           ":beer: Sam is drinking Hawkes IPA by Hawkes Brewing Co\n:clipboard: IPA - American"
      [] beer_name = "Hawkes IPA" /\ style = "" ->
           ":beer: Sam is drinking Hawkes IPA by Hawkes Brewing Co"
      [] beer_name = "Hapi Daze" /\ style = "Pale Ale - New Zealand" ->
           ":beer: Sam is drinking Hapi Daze by Garage Project\n:clipboard: Pale Ale - New Zealand"
      [] beer_name = "Hapi Daze" /\ style = "" ->
           ":beer: Sam is drinking Hapi Daze by Garage Project"
      [] beer_name = "Pacific Ale" /\ style = "Pale Ale - Australian" ->
           ":beer: Sam is drinking Pacific Ale by Stone & Wood\n:clipboard: Pale Ale - Australian"
      [] beer_name = "Pacific Ale" /\ style = "" ->
           ":beer: Sam is drinking Pacific Ale by Stone & Wood"
      [] beer_name = "Tap Beer" /\ style = "" ->
           ":beer: Sam is drinking Tap Beer"
      [] beer_name = "Hazy IPA" /\ style = "IPA - New England / Hazy" ->
           ":beer: Sam is drinking Hazy IPA by Young Henrys\n:clipboard: IPA - New England / Hazy"
      [] beer_name = "Hazy IPA" /\ style = "" ->
           ":beer: Sam is drinking Hazy IPA by Young Henrys"
      [] beer_name = "Oat Stout" /\ style = "Stout - Oatmeal" ->
           ":beer: Sam is drinking Oat Stout\n:clipboard: Stout - Oatmeal"
      [] beer_name = "Oat Stout" /\ style = "" ->
           ":beer: Sam is drinking Oat Stout"

UntappdSource(venue_id) ==
    CASE venue_id = "young-henrys" -> "untappd-young-henrys"
      [] venue_id = "batch-brewing" -> "untappd-batch-brewing"
      [] venue_id = "wayward-brewing" -> "untappd-wayward-brewing"
      [] venue_id = "grifter-brewing" -> "untappd-grifter-brewing"
      [] venue_id = "the-rocks-brewing" -> "untappd-the-rocks-brewing"
      [] venue_id = "bracket-brewing" -> "untappd-bracket-brewing"
      [] venue_id = "future-brewing" -> "untappd-future-brewing"
      [] venue_id = "range-brewing" -> "untappd-range-brewing"
      [] venue_id = "mountain-culture" -> "untappd-mountain-culture"
      [] venue_id = "kicks-brewing" -> "untappd-kicks-brewing"
      [] venue_id = "4-pines" -> "untappd-4-pines"
      [] venue_id = "white-bay" -> "untappd-white-bay"
      [] venue_id = "mountain-culture-redfern" -> "untappd-mountain-culture-redfern"
      [] venue_id = "mountain-culture-emu-plains" -> "untappd-mountain-culture-emu-plains"
      [] venue_id = "seeker-brewing" -> "untappd-seeker-brewing"
      [] venue_id = "bay-road-brewing" -> "untappd-bay-road-brewing"
      [] venue_id = "ekim-brewing" -> "untappd-ekim-brewing"
      [] venue_id = "philter-brewing" -> "untappd-philter-brewing"
      [] venue_id = "sauce-brewing" -> "untappd-sauce-brewing"
      [] venue_id = "blood-orange-liquor" -> "untappd-blood-orange-liquor"
      [] venue_id = "the-tilbury" -> "untappd-the-tilbury"
      [] venue_id = "ddc" -> "untappd-ddc"
      [] venue_id = "basketball-liquor" -> "untappd-basketball-liquor"
      [] venue_id = "tiva" -> "untappd-tiva"
      [] venue_id = "hotel-sweeneys" -> "untappd-hotel-sweeneys"
      [] venue_id = "jb-and-sons" -> "untappd-jb-and-sons"
      [] venue_id = "jb-and-sons-manly" -> "untappd-jb-and-sons-manly"
      [] venue_id = "noble-hops" -> "untappd-noble-hops"
      [] venue_id = "union-hotel" -> "untappd-union-hotel"
      [] venue_id = "bitter-phew" -> "untappd-bitter-phew"
      [] venue_id = "harts-pub" -> "untappd-harts-pub"

MaxCheckins == 15

\* A venue page with its checkins.
CheckinPage(checkins) ==
    [kind |-> "page", status |-> HttpOk, checkins |-> checkins, error |-> ""]

\* One iteration of "for checkin in checkins[:15]" of scrape_untappd_checkins
\* at t, for the checkin c: the details come from beer_cache or from the
\* request of the beer page, whose outcome is mode, and are cached when the
\* request yields some; the post is built.  The lookup is the history of
\* the iteration: what the cache held for the URL, whether the page was
\* requested and at what time, the details the post was built with, and
\* what became of the producer.
checkin_iteration(venue_id, c, mode, cache, file, t) ==
    LET hit == c.beer_url # "" /\ InCache(cache, c.beer_url)
        fetch == c.beer_url # "" /\ ~InCache(cache, c.beer_url)
        d == scrape_untappd_beer_details(c.beer_url, mode, file, t)
        beer_details == IF fetch THEN d.beer_data
                        ELSE IF hit THEN <<Cached(cache, c.beer_url)>>
                        ELSE <<>>
        style == IF beer_details # <<>> THEN beer_details[1].style ELSE ""
    IN  [post |-> Post(venue_id, "untappd",
                       UntappdContent(c.beer_name, c.brewery_name, style), <<>>),
         beer_cache |-> IF fetch /\ d.beer_data # <<>>
                          THEN Append(cache, d.beer_data[1]) ELSE cache,
         auto_venues_file |-> IF fetch THEN d.auto_venues_file ELSE file,
         lookup |-> [venue_id |-> venue_id, beer_url |-> c.beer_url,
                     fetched |-> fetch, t |-> t,
                     cached |-> IF hit THEN <<Cached(cache, c.beer_url)>> ELSE <<>>,
                     beer_details |-> beer_details,
                     registered |-> IF fetch THEN d.registered ELSE "none"]]

(***************************************************************************)
(* Deduplication by content hash, as the loop of main() does it.           *)
(***************************************************************************)
NoteSeenForgets(seen_hashes, h) == seen_hashes

NoteSeen(seen_hashes, h) == seen_hashes \cup {h}

RECURSIVE dedup_loop(_, _, _, _)
dedup_loop(posts, i, seen_hashes, unique) ==
    IF i > Len(posts) THEN unique
    ELSE LET h == get_content_hash(posts[i].content)
         IN  IF h \notin seen_hashes
               THEN dedup_loop(posts, i + 1, NoteSeen(seen_hashes, h),
                               Append(unique, posts[i]))
               ELSE dedup_loop(posts, i + 1, seen_hashes, unique)

Deduplicate(posts) == dedup_loop(posts, 1, {}, <<>>)

(***************************************************************************)
(* load_beers_from_untappd (data.py).  Times are in half days; a timedelta *)
(* of h half days has .days = h \div 2.                                    *)
(***************************************************************************)
\* f"{beer_name}|{brewery}"
history_key(name, brewery) == <<name, "|", brewery>>

Days(half_days) == half_days \div 2

\* The stored first-seen time of the key, or the time of this load.
first_seen_of(beer_history, key, t) ==
    IF key \in DOMAIN beer_history THEN beer_history[key] ELSE t

\* beer_history[history_key] = first_seen.isoformat(), on the first sight only.
remember(beer_history, key, t) ==
    IF key \in DOMAIN beer_history THEN beer_history ELSE (key :> t) @@ beer_history

\* f"untappd-{name slug[:30]}", and f"-{brewery slug[:20]}" when there is a brewery
beer_id(beer_name, brewery) ==
    CASE beer_name = "Hazy IPA" /\ brewery = "Young Henrys" ->
           "untappd-hazy-ipa-young-henrys"
      [] beer_name = "Oat Stout" /\ brewery = "" ->
           "untappd-oat-stout"
      [] beer_name = "House Lager" /\ brewery = "Young Henrys" ->
           "untappd-house-lager-young-henrys"
      [] beer_name = "House Lager" /\ brewery = "Batch Brewing Company" ->
           "untappd-house-lager-batch-brewing-compan"
      [] beer_name = "House Lager" /\ brewery = "Hawkes Brewing Co" ->
           "untappd-house-lager-hawkes-brewing-co"
      [] beer_name = "House Lager" /\ brewery = "Garage Project" ->
           "untappd-house-lager-garage-project"
      [] beer_name = "House Lager" /\ brewery = "Stone & Wood" ->
           "untappd-house-lager-stone-and-wood"
      [] beer_name = "House Lager" /\ brewery = "" ->
           "untappd-house-lager"
      [] beer_name = "House Lager" /\ brewery = " " ->
           "untappd-house-lager--"
      [] beer_name = "House Lager" /\ brewery = "JB & Sons Manly" ->
           "untappd-house-lager-jb-and-sons-manly"
      [] beer_name = "House Lager" /\ brewery = "JB and Sons" ->
           "untappd-house-lager-jb-and-sons"
      [] beer_name = "House Lager" /\ brewery = "Wayward" ->
           "untappd-house-lager-wayward"
      [] beer_name = "House Lager" /\ brewery = "  Sauce Brewing Co " ->
           "untappd-house-lager---sauce-brewing-co-"
      [] beer_name = "House Lager" /\ brewery = "Bay Rd Brewing" ->
           "untappd-house-lager-bay-rd-brewing"
      [] beer_name = "House Lager" /\ brewery = "Brewing" ->
           "untappd-house-lager-brewing"
      [] beer_name = "House Lager" /\ brewery = "The Union Hotel Newtown" ->
           "untappd-house-lager-the-union-hotel-newt"
      [] beer_name = "House Lager" /\ brewery = "Mountain Culture" ->
           "untappd-house-lager-mountain-culture"
      [] beer_name = "Newtowner" /\ brewery = "Young Henrys" ->
           "untappd-newtowner-young-henrys"
      [] beer_name = "Elsie" /\ brewery = "Batch Brewing Company" ->
           "untappd-elsie-batch-brewing-compan"
      [] beer_name = "Hawkes Lager" /\ brewery = "Hawkes Brewing Co" ->
           "untappd-hawkes-lager-hawkes-brewing-co"
      [] beer_name = "Hawkes Pale" /\ brewery = "Hawkes Brewing Co" ->
           "untappd-hawkes-pale-hawkes-brewing-co"
      [] beer_name = "Hawkes IPA" /\ brewery = "Hawkes Brewing Co" ->
           "untappd-hawkes-ipa-hawkes-brewing-co"
      [] beer_name = "Hapi Daze" /\ brewery = "Garage Project" ->
           "untappd-hapi-daze-garage-project"
      [] beer_name = "Pacific Ale" /\ brewery = "Stone & Wood" ->
           "untappd-pacific-ale-stone-and-wood"

Beer(d, first_seen, t) ==
    [id |-> beer_id(d.name, d.brewery), name |-> d.name,
     brewery_id |-> map_brewery_to_venue_id(d.brewery),
     brewery_name |-> IF d.brewery # "" THEN d.brewery
                      ELSE map_brewery_to_venue_id(d.brewery),
     key |-> history_key(d.name, d.brewery), release_date |-> first_seen,
     is_new_release |-> Days(t - first_seen) <= NewWindowDays]

\* The loop over beer_details_cache.items(): [beer_history, beers].
RECURSIVE load_loop(_, _, _, _, _)
load_loop(details, i, beer_history, found, t) ==
    IF i > Len(details) THEN [beer_history |-> beer_history, beers |-> found]
    ELSE IF details[i].name = "" THEN load_loop(details, i + 1, beer_history, found, t)
    ELSE LET key == history_key(details[i].name, details[i].brewery)
             first_seen == first_seen_of(beer_history, key, t)
             history2 == remember(beer_history, key, t)
         IN  IF Days(t - first_seen) <= KeepWindowDays
               THEN load_loop(details, i + 1, history2,
                              Append(found, Beer(details[i], first_seen, t)), t)
               ELSE load_loop(details, i + 1, history2, found, t)

\* load_json(BEER_DETAILS_FILE): {} when the file is absent.
load_json(file) == IF Len(file) = 1 THEN file[1] ELSE <<>>

\* The module level of data.py, which every process that imports it runs:
\* load_beers_from_untappd() and load_dynamic_data().  The first returns []
\* at once when beer_details.json is absent or when reading it raises; else
\* it runs the loop over the details (none for a file that holds {}) with
\* the history read from beer_history.json and writes the history back.
\* When that write raises, a warning is printed and the file stays as it was.
module_level(history_ok, details_ok, write_ok, dynamic_ok) ==
    LET details == load_json(beer_details_file)
        \* {} when the file is absent or when reading it raises
        beer_history == IF Len(beer_history_file) = 1 /\ history_ok
                          THEN beer_history_file[1] ELSE EmptyMap
        r == load_loop(details, 1, beer_history, <<>>, today)
        returned == beer_details_file = <<>> \/ ~details_ok
        \* load_dynamic_data(), for the beers it returns: the manual_beers
        \* of dynamic_updates.json, each flagged new when its release date
        \* is at most seven days old; none when the file is absent or when
        \* reading it raises.
        load_dynamic_data ==
            LET data == IF Len(data_file) = 1 THEN data_file[1] ELSE EmptyMap
                manual_beers == IF "manual_beers" \in DOMAIN data
                                  THEN data.manual_beers ELSE <<>>
            IN  IF data_file = <<>> \/ ~dynamic_ok THEN <<>>
                ELSE [i \in 1..Len(manual_beers) |->
                        [id |-> manual_beers[i].id, name |-> manual_beers[i].name,
                         brewery_id |-> manual_beers[i].brewery_id,
                         style |-> manual_beers[i].style,
                         release_date |-> manual_beers[i].release_date,
                         is_new_release |->
                             Days(today - manual_beers[i].release_date)
                                 <= NewWindowDays]]
    IN  [beers |-> IF returned THEN <<>> ELSE r.beers,
         dynamic_beers |-> load_dynamic_data,
         beer_history_file |-> IF returned \/ ~write_ok THEN beer_history_file
                               ELSE <<r.beer_history>>,
         first_obs |->
             IF returned THEN first_obs
             ELSE [k \in DOMAIN first_obs \cup
                          {history_key(details[i].name, details[i].brewery) :
                             i \in {j \in 1..Len(details) :
                                       details[j].name # ""}} |->
                     IF k \in DOMAIN first_obs THEN first_obs[k] ELSE today]]

\* A process imports data.py: each of its reads and its write succeeds or
\* raises, and the stores and the lists are left as the module level leaves
\* them.
ImportData ==
    \E r \in {module_level(history_ok, details_ok, write_ok, dynamic_ok) :
                history_ok, details_ok, write_ok, dynamic_ok \in BOOLEAN} :
        /\ beers' = r.beers
        /\ dynamic_beers' = r.dynamic_beers
        /\ beer_history_file' = r.beer_history_file
        /\ first_obs' = r.first_obs

(***************************************************************************)
(* Inputs: what the network answers.                                       *)
(***************************************************************************)

\* A site of n paths: the paths before `first` fail the way `failure` says,
\* the others answer with the page.
Site(n, first, failure, page) == [i \in 1..n |-> IF i < first THEN failure ELSE page]

SiteResponses(n, live) ==
    IF ~live THEN {Site(n, n + 1, Raise("timeout"), Raise("timeout"))}
    ELSE
    {Site(n, n + 1, Raise("timeout"), Raise("timeout")),
     Site(n, n + 1, Page(404, <<>>), Page(404, <<>>))}
    \cup {Site(n, 1, Raise("timeout"), Page(200, f)) : f \in {<<>>, <<T1, T4, T1>>, <<T4, T2, T3>>, <<T5, T1>>}}
    \cup {Site(n, 2, Raise("timeout"), Page(200, <<T4, T2, T3>>)),
          Site(n, 2, Page(404, <<>>), Page(200, <<T1, T4, T1>>)),
          Site(n, 1, Raise("timeout"), Page(200, <<T1, T4, T1, T4, T1, T4>>))}

MountainPathCount == 3
GenericPathCount == 10

Item(caption, media) ==
    [caption |-> caption, media |-> media, posted |-> <<[age |-> 1, tz |-> FALSE]>>]

ApifyResponses(live) ==
    IF ~live THEN {[items |-> <<>>, fail_after |-> 0, error |-> "timeout"]}
    ELSE
    {[items |-> f, fail_after |-> k, error |-> "timeout"] :
        f \in {<<>>, <<Item(T1, FALSE), Item(T4, FALSE)>>,
                <<Item(T1, FALSE), Item(T2, FALSE), Item(T3, TRUE)>>,
                <<Item(T5, FALSE), Item(T1, FALSE), Item(T5, TRUE)>>},
        k \in {-1, 0, 1}}
    \* old timestamps, with and without a zone, and an item without one
    \cup {[items |-> <<[Item(T1, FALSE) EXCEPT
                           !.posted = <<[age |-> 20, tz |-> TRUE]>>],
                       [Item(T4, FALSE) EXCEPT
                           !.posted = <<[age |-> 20, tz |-> FALSE]>>],
                       [Item(T3, FALSE) EXCEPT !.posted = <<>>]>>,
           fail_after |-> -1, error |-> "timeout"]}

(***************************************************************************)
(* main(): the calls it makes, in its order.  The list is the code's; a    *)
(* deployment of the model tells which sources the network answers         *)
(* (`live`), and every request to another source times out.  The section   *)
(* of the Meta API is one call, scrape_all_with_meta.                      *)
(***************************************************************************)
main_plan(live) ==
    LET Entry(fn, venue_id, handle) ==
            [fn |-> fn, venue_id |-> venue_id, handle |-> handle,
             live |-> <<fn, venue_id>> \in live]
        \* website_map, in the order of the dict
        website_map == <<"4-pines", "white-bay", "wayward-brewing", "grifter-brewing",
                         "the-rocks-brewing", "bracket-brewing", "young-henrys">>
        with_handle == SelectSeq(SYDNEY_VENUES, LAMBDA venue : venue.instagram_handle # "")
    IN  <<Entry("batch", "batch-brewing", ""), Entry("mountain", "mountain-culture", "")>>
        \o [i \in 1..Len(website_map) |-> Entry("generic", website_map[i], "")]
        \o <<Entry("meta", "", "")>>
        \o [i \in 1..Len(with_handle) |->
               Entry("apify", with_handle[i].id, with_handle[i].instagram_handle)]
        \* enthusiast_accounts
        \o <<Entry("enthusiast", "craftbeer-sydney", "craftbeer_sydney"),
             Entry("enthusiast", "beer-sydney", "beersydney")>>

SourceOf(entry) ==
    CASE entry.fn = "batch" -> "batch-brewing-website"
      [] entry.fn = "mountain" -> "mountain-culture-website"
      [] entry.fn = "generic" -> WebsiteSource(entry.venue_id)
      [] entry.fn = "apify" -> InstagramSource(entry.handle)
      \* the ledger of the run has no source of scrape_instagram_meta
      [] entry.fn = "meta" -> ""
      \* scrape_all_imginn_content names no source of the ledger
      [] entry.fn = "enthusiast" -> ""

\* The run's entry and the ledger's error count for a source, for the history.
RunEntry(self, source_name) ==
    IF has_current_run(self) /\ source_name \in DOMAIN self.current_run[1].sources
      THEN <<self.current_run[1].sources[source_name]>>
      ELSE <<>>

ErrorCount(self, source_name) ==
    IF source_name \in DOMAIN self.metrics.sources
      THEN Len(self.metrics.sources[source_name].errors)
      ELSE 0

\* main() starts in a new process: scraper.py imports data.py, the ledger is
\* loaded, the run opened and the cache read.  Neither ScraperMetrics._load
\* nor load_cache() is guarded: when reading scraper_metrics.json raises,
\* main() ends in get_metrics(), before a run is opened; when reading
\* scraper_cache.json raises, it ends there, with the run open.
MainStart ==
    /\ pc \in {"idle", "done", "crashed"}
    /\ run_no < MaxMainRuns
    /\ ImportData
    /\ \E metrics_ok, cache_ok \in BOOLEAN :
         /\ metrics_ok \/ metrics_file # <<>>
         /\ cache_ok \/ cache_file # <<>>
         /\ metrics_ok \/ cache_ok
         /\ LET r == record_run_start([metrics |-> load_metrics(metrics_file),
                                       current_run |-> <<>>], now + 1)
            IN  /\ metrics' = IF metrics_ok THEN r.metrics ELSE metrics
                /\ current_run' = IF metrics_ok THEN r.current_run ELSE <<>>
         /\ started_log' = IF metrics_ok THEN Append(started_log, now + 1)
                           ELSE started_log
         /\ pc' = IF metrics_ok /\ cache_ok THEN "fetch" ELSE "crashed"
    /\ now' = now + 1
    /\ attempted' = {}
    /\ idx' = 1
    /\ all_posts' = <<>>
    /\ unique_posts' = <<>>
    /\ fetched' = <<>>
    /\ run_no' = run_no + 1
    /\ UNCHANGED <<metrics_file, summary, calls, err_log, ended_log, last_call, plan,
                   environ, data_file, cache_file, today, editing, beer_details_file,
                   loads, untappd_vars>>

\* all_posts.extend(posts) after the call of plan[idx] with outcome r.
Collect(r, posts) ==
    /\ metrics' = r.self.metrics
    /\ current_run' = r.self.current_run
    /\ now' = now + 1
    /\ attempted' = attempted \cup {SourceOf(plan[idx])}
    /\ all_posts' = all_posts \o posts
    /\ fetched' = Append(fetched,
            [fn |-> plan[idx].fn, source |-> SourceOf(plan[idx]),
             raised |-> r.raised, all_failed |-> r.all_failed, calls |-> r.calls,
             returned |-> posts,
             run_entry |-> RunEntry(r.self, SourceOf(plan[idx])),
             errors_added |-> ErrorCount(r.self, SourceOf(plan[idx]))
                              - ErrorCount(Self, SourceOf(plan[idx]))])
    /\ idx' = idx + 1
    /\ UNCHANGED <<metrics_file, summary, calls, err_log, started_log, ended_log, last_call,
                   plan, environ, pc, unique_posts, data_file, run_no, cache_file,
                   load_vars>>

Calling(fn) == pc = "fetch" /\ idx <= Len(plan) /\ plan[idx].fn = fn

ScrapeWebsiteBatchBrewing ==
    /\ Calling("batch")
    /\ \E resp \in IF plan[idx].live
                     THEN {Raise("timeout"), Page(500, <<<<>>, <<>>>>),
                           Page(200, <<<<>>, <<>>>>),
                           Page(200, <<<<T1, T4, T1, T2>>, <<>>>>),
                           Page(200, <<<<T4>>, <<T2, T3>>>>)}
                     ELSE {Raise("timeout")} :
         LET r == scrape_website_batch_brewing(Self, resp, now + 1)
         IN  Collect(r, r.returned)

ScrapeWebsiteMountainCulture ==
    /\ Calling("mountain")
    /\ \E resps \in SiteResponses(MountainPathCount, plan[idx].live) :
         LET r == scrape_website_mountain_culture(Self, resps)
         IN  Collect(r, r.returned)

\* One iteration of "for venue_id, url in website_map.items()".
ScrapeGenericWebsite ==
    /\ Calling("generic")
    /\ \E resps \in SiteResponses(GenericPathCount, plan[idx].live) :
         LET r == scrape_generic_website(Self, plan[idx].venue_id, resps)
         IN  Collect(r, r.returned)

\* scrape_instagram_meta(username, venue_id, access_token).  resp is what
\* graph.instagram.com answers: `me` for the request of /me, "raise", "error"
\* or "ok", and `media` for the request of the media, "raise", "error" or
\* "ok" with `items`.  The id /me gives is the id of the owner of the token,
\* whatever the username: every account gets the media of that one.  An item
\* older than the cutoff is dropped when its timestamp has no zone; with a
\* zone, the comparison with the naive cutoff_date raises and the bare
\* except lets the item through, and so does an item without a timestamp.
scrape_instagram_meta(venue_id, resp) ==
    LET media_items == IF resp.media = "ok" THEN resp.items ELSE <<>>
        TooOld(item) == /\ item.posted # <<>>
                        /\ ~item.posted[1].tz
                        /\ item.posted[1].age > MetaCutoffDays
        \* any(kw in caption.lower() for kw in beer_keywords)
        HasMetaKeyword(caption) == caption \in {T1, T2, T3, T4}
        kept == SelectSeq(media_items,
                          LAMBDA item : ~TooOld(item) /\ HasMetaKeyword(item.caption))
    IN  IF resp.me # "ok" THEN <<>>
        ELSE [i \in 1..Len(kept) |->
                 Post(venue_id, "instagram", kept[i].caption,
                      kept[i].posted)]

\* scrape_all_with_meta(access_token, accounts): the posts of the accounts,
\* one account after the other.
RECURSIVE scrape_all_with_meta(_, _, _)
scrape_all_with_meta(accounts, i, resp) ==
    IF i > Len(accounts) THEN <<>>
    ELSE scrape_instagram_meta(accounts[i].id, resp)
         \o scrape_all_with_meta(accounts, i + 1, resp)

\* "if instagram_token:" meta_accounts is built from the venues with a
\* handle and scrape_all_with_meta is called in a try.  The scraper imports
\* `scraper_metrics`, not `scripts.scraper_metrics`: get_metrics() there is
\* the singleton of another module object, a ledger that is loaded from
\* scraper_metrics.json at its first use, has no current_run and is never
\* saved; what it records is lost, and the ledger of the run is not
\* touched.  When that load raises (load_ok is FALSE), the exception leaves
\* scrape_all_with_meta and main() prints it: the section adds no post.
ScrapeAllWithMeta ==
    /\ Calling("meta")
    /\ IF "INSTAGRAM_ACCESS_TOKEN" \in environ
         THEN \E resp \in
                  IF plan[idx].live
                    THEN {[me |-> "raise", media |-> "raise", items |-> <<>>],
                          [me |-> "error", media |-> "raise", items |-> <<>>],
                          [me |-> "ok", media |-> "raise", items |-> <<>>],
                          [me |-> "ok", media |-> "error", items |-> <<>>]}
                         \cup {[me |-> "ok", media |-> "ok", items |-> f] :
                                 f \in {<<>>, <<Item(T1, FALSE)>>,
                                        <<Item(T5, FALSE),
                                          [Item(T4, FALSE) EXCEPT
                                              !.posted = <<[age |-> 20, tz |-> TRUE]>>],
                                          [Item(T1, FALSE) EXCEPT
                                              !.posted = <<[age |-> 20, tz |-> FALSE]>>],
                                          [Item(T3, FALSE) EXCEPT !.posted = <<>>]>>}}
                    ELSE {[me |-> "raise", media |-> "raise", items |-> <<>>]},
                 load_ok \in BOOLEAN :
                /\ load_ok \/ metrics_file # <<>>
                /\ \E posts \in
                       {IF load_ok
                          THEN scrape_all_with_meta(
                                 SelectSeq(SYDNEY_VENUES,
                                           LAMBDA venue : venue.instagram_handle # ""),
                                 1, resp)
                          ELSE <<>>} :
                     /\ all_posts' = all_posts \o posts
                     /\ fetched' = Append(fetched,
                            [fn |-> "meta", source |-> "", raised |-> ~load_ok,
                             all_failed |-> ~load_ok \/ resp.me # "ok"
                                            \/ resp.media # "ok",
                             calls |-> <<>>, returned |-> posts,
                             run_entry |-> <<>>, errors_added |-> 0])
                /\ now' = now + 1
         ELSE UNCHANGED <<all_posts, fetched, now>>
    /\ idx' = idx + 1
    /\ UNCHANGED <<metrics, current_run, metrics_file, summary, calls, attempted,
                   err_log, started_log, ended_log, last_call, plan, environ,
                   pc, unique_posts, data_file, run_no, cache_file, load_vars>>

\* "if os.getenv('APIFY_API_TOKEN'):" one iteration of the loop over the
\* venues with a handle; else the whole section is skipped.
ScrapeInstagramApify ==
    /\ Calling("apify")
    /\ IF "APIFY_API_TOKEN" \in environ
         THEN \E resp \in ApifyResponses(plan[idx].live) :
                LET r == scrape_instagram_apify(Self, plan[idx].handle, TRUE,
                                                resp, now + 1)
                IN  Collect(r, SetVenue(r.returned, plan[idx].venue_id))
         ELSE /\ idx' = CHOOSE j \in (idx + 1)..(Len(plan) + 1) :
                           /\ \A k \in idx..(j - 1) : plan[k].fn = "apify"
                           /\ j <= Len(plan) => plan[j].fn # "apify"
              /\ UNCHANGED <<ledger_vars, plan, environ, pc, all_posts,
                             unique_posts, data_file, run_no, cache_file, fetched,
                             load_vars>>

\* One iteration of "for source_id, username in enthusiast_accounts.items()":
\* the account is fetched through Imginn, which records nothing in the
\* ledger, and each post gets the venue its content mentions, if any.
ScrapeEnthusiastAccount ==
    /\ Calling("enthusiast")
    /\ \E stories_resp \in
            IF plan[idx].live
              THEN {Raise("timeout"),
                    [kind |-> "page", status |-> 403, items |-> <<>>],
                    [kind |-> "page", status |-> 200, items |->
                       <<[caption |-> "Loving the new hazy from Young Henrys",
                          time |-> <<>>],
                         [caption |-> "", time |-> <<>>]>>]}
              ELSE {Raise("timeout")},
          posts_resp \in
            IF plan[idx].live
              THEN {Raise("timeout"),
                    [kind |-> "page", status |-> 200, items |->
                       <<[caption |-> "Loving the new hazy from Young Henrys",
                          time |-> <<"2d ago">>],
                         [caption |-> "Fresh drop from @younghenrys today",
                          time |-> <<"3w ago">>],
                         [caption |-> "Weekend plans sorted",
                          time |-> <<"5h ago">>]>>],
                    [kind |-> "page", status |-> 200, items |->
                       <<[caption |-> "Fresh drop from @younghenrys today",
                          time |-> <<"yesterday">>],
                         [caption |-> "", time |-> <<>>]>>]}
              ELSE {Raise("timeout")} :
         LET posts == scrape_all_imginn_content(stories_resp, posts_resp,
                                                plan[idx].venue_id)
             detected == [i \in 1..Len(posts) |->
                            IF detect_venue(posts[i].content) # ""
                              THEN [posts[i] EXCEPT
                                       !.venue_id = detect_venue(posts[i].content)]
                              ELSE posts[i]]
             failed == stories_resp.kind = "raise" /\ posts_resp.kind = "raise"
         IN  /\ all_posts' = all_posts \o detected
             /\ fetched' = Append(fetched,
                    [fn |-> "enthusiast", source |-> "", raised |-> FALSE,
                     all_failed |-> failed, calls |-> <<>>, returned |-> detected,
                     run_entry |-> <<>>, errors_added |-> 0])
    /\ now' = now + 1
    /\ idx' = idx + 1
    /\ UNCHANGED <<metrics, current_run, metrics_file, summary, calls, attempted,
                   err_log, started_log, ended_log, last_call, plan, environ,
                   pc, unique_posts, data_file, run_no, cache_file, load_vars>>

(***************************************************************************)
(* The Untappd section of main(): the caches are loaded, every venue of    *)
(* the loop is visited, and beer_details.json is written after the loop.   *)
(***************************************************************************)

\* What the request for the page of a venue meets: an exception, or a page
\* with its checkins.
UntappdResponses(venue_id) ==
    CASE venue_id = "young-henrys" ->
           {Raise("timeout"),
            CheckinPage(<<Checkin("https://untappd.com/b/hazy-ipa/1",
                                  "Hazy IPA", "Young Henrys")>>),
            CheckinPage(<<Checkin("https://untappd.com/b/hazy-ipa/1",
                                  "Hazy IPA", "Young Henrys"),
                          Checkin("https://untappd.com/b/hazy-ipa/2",
                                  "Hazy IPA", "Young Henrys"),
                          Checkin("https://untappd.com/b/oat-stout/3",
                                  "Oat Stout", "")>>)}
      [] venue_id = "noble-hops" ->
           {Raise("timeout"),
            CheckinPage(<<Checkin("https://untappd.com/b/hawkes-lager/3",
                                  "Hawkes Lager", "Hawkes Brewing Co"),
                          Checkin("https://untappd.com/b/garage-project-hapi-daze/5",
                                  "Hapi Daze", "Garage Project"),
                          Checkin("https://untappd.com/b/hawkes-pale/4",
                                  "Hawkes Pale", "Hawkes Brewing Co")>>)}
      [] venue_id = "bitter-phew" ->
           {Raise("timeout"),
            CheckinPage(<<Checkin("https://untappd.com/b/hawkes-lager/3",
                                  "Hawkes Lager", "Hawkes Brewing Co"),
                          Checkin("https://untappd.com/b/hawkes-ipa/7",
                                  "Hawkes IPA", "Hawkes Brewing Co")>>)}
      [] venue_id = "harts-pub" ->
           {Raise("timeout"),
            CheckinPage(<<Checkin("", "Tap Beer", ""),
                          Checkin("https://untappd.com/b/garage-project-hapi-daze/5",
                                  "Hapi Daze", "Garage Project")>>)}
      [] OTHER ->
    {Raise("timeout"),
     CheckinPage(<<Checkin("https://untappd.com/b/young-henrys-newtowner/1",
                           "Newtowner", "Young Henrys"),
                   Checkin("https://untappd.com/b/batch-elsie/2",
                           "Elsie", "Batch Brewing Company"),
                   Checkin("https://untappd.com/b/hawkes-ipa/7",
                           "Hawkes IPA", "Hawkes Brewing Co"),
                   Checkin("", "Tap Beer", "")>>),
     CheckinPage(<<Checkin("https://untappd.com/b/hawkes-lager/3",
                           "Hawkes Lager", "Hawkes Brewing Co"),
                   Checkin("https://untappd.com/b/hawkes-pale/4",
                           "Hawkes Pale", "Hawkes Brewing Co"),
                   Checkin("https://untappd.com/b/garage-project-hapi-daze/5",
                           "Hapi Daze", "Garage Project"),
                   Checkin("https://untappd.com/b/stone-and-wood-pacific-ale/6",
                           "Pacific Ale", "Stone & Wood"),
                   Checkin("https://untappd.com/b/hawkes-ipa/7",
                           "Hawkes IPA", "Hawkes Brewing Co")>>)}

\* What the request for the detail page of a beer meets, the mode of
\* scrape_untappd_beer_details: the page parses in full; it does and
\* auto_discovered_venues.json cannot be opened ("unsaved"); the page yields
\* no field ("empty"); the request raises.
BeerPageResponses(beer_url) ==
    CASE beer_url = "https://untappd.com/b/hazy-ipa/1" -> {"full", "empty", "raise"}
      [] beer_url = "https://untappd.com/b/young-henrys-newtowner/1" -> {"full", "raise"}
      [] beer_url = "https://untappd.com/b/batch-elsie/2" -> {"full", "empty"}
      [] beer_url = "https://untappd.com/b/hawkes-lager/3" -> {"full", "unsaved"}
      [] beer_url = "https://untappd.com/b/garage-project-hapi-daze/5" -> {"full", "raise"}
      [] OTHER -> {"full"}

\* len(json.dumps(data, indent=2)): "{}" for no key, else a line for each
\* key (two spaces, the key and the value in quotes, ": " between them),
\* ",\n" between two lines, after "{\n" and before "\n}".
RECURSIVE JsonSize(_)
JsonSize(data) ==
    LET \* len(text), for a key or a value
        StrLen(text) ==
            CASE text = "hotel-sweeneys" -> 14
              [] text = "young-henrys" -> 12
              [] text = "bitter-phew" -> 11
              [] text = "jb-and-sons" -> 11
              [] text = "noble-hops" -> 10
              [] text = "harts-pub" -> 9
              [] text = "107565" -> 6
              [] text = "9234" -> 4
    IN  IF DOMAIN data = {} THEN 2
        ELSE LET k == CHOOSE key \in DOMAIN data : TRUE
                 rest == [key \in DOMAIN data \ {k} |-> data[key]]
             IN  StrLen(k) + StrLen(data[k]) + 8
                 + (IF DOMAIN rest = {} THEN 4 ELSE JsonSize(rest) + 2)

\* untappd_venues.json after open(..., 'w') and before the document is
\* written: the file is empty, which json.load rejects.
Truncated == <<[complete |-> FALSE, data |-> EmptyMap, size |-> 0]>>

\* untappd_venues.json after a handle that was opened with 'w' writes the
\* document from its start.  On the file as open() left it, the file holds
\* the document; what another handle wrote since, beyond the end of the
\* document, stays, and json.load rejects the file.
Overwritten(file, data) ==
    IF file # <<>> /\ file[1].size > JsonSize(data)
      THEN <<[complete |-> FALSE, data |-> EmptyMap, size |-> file[1].size]>>
      ELSE <<[complete |-> TRUE, data |-> data, size |-> JsonSize(data)]>>

\* untappd_cache and beer_cache are read from their files; each stays {}
\* when its file is absent or when reading it raises (the bare excepts),
\* as json.load does on a file that does not hold a whole document.
LoadUntappdCaches ==
    /\ pc = "fetch"
    /\ idx > Len(plan)
    /\ \E venues_ok, details_ok \in BOOLEAN :
         /\ venues_ok \/ untappd_venues_file # <<>>
         /\ details_ok \/ beer_details_file # <<>>
         /\ untappd_cache' = IF /\ venues_ok
                                /\ untappd_venues_file # <<>>
                                /\ untappd_venues_file[1].complete
                               THEN untappd_venues_file[1].data ELSE EmptyMap
         /\ beer_cache' = IF details_ok THEN load_json(beer_details_file) ELSE <<>>
    /\ vidx' = 1
    /\ pc' = "untappd"
    /\ UNCHANGED <<ledger_vars, plan, environ, idx, all_posts, unique_posts,
                   data_file, run_no, cache_file, fetched, today, editing,
                   beer_details_file, beer_history_file, beers, dynamic_beers, loads, first_obs,
                   venues, scraping, untappd_venues_file, auto_venues_file, adding>>

\* The head of an iteration of "for venue in SYDNEY_VENUES", up to its next
\* request.  Without an id for the venue, find_untappd_venue_id is called:
\* an id that is found is set in untappd_cache, and the whole of
\* untappd_cache, as it was read at the start of the section and extended
\* since, is written over untappd_venues.json; the write is not guarded.
\* With an id, scrape_untappd_checkins is entered: the attempt is recorded
\* and the page of the venue is requested; an exception of the request is
\* recorded as an error and the iteration ends.
UntappdVenue ==
    /\ pc = "untappd"
    /\ vidx <= Len(venues)
    /\ scraping = <<>>
    /\ LET venue == venues[vidx]
           source_name == UntappdSource(venue.id)
           \* venue.untappd_id or untappd_cache.get(venue.id)
           known == IF venue.untappd_id # "" THEN venue.untappd_id
                    ELSE IF venue.id \in DOMAIN untappd_cache
                      THEN untappd_cache[venue.id]
                    ELSE ""
           found == (venue.id :> "9234") @@ untappd_cache
       IN  IF known = ""
             \* find: no id is found; one is found and stored; one is found
             \* and open() of the store raises; one is found and json.dump
             \* raises, after open() emptied the store.
             THEN /\ \E find \in IF venue.live
                                   THEN {"none", "found", "open-fails", "dump-fails"}
                                   ELSE {"none"} :
                       /\ untappd_cache' = IF find = "none" THEN untappd_cache
                                           ELSE found
                       /\ untappd_venues_file' =
                            CASE find = "found" -> Overwritten(Truncated, found)
                              [] find = "dump-fails" -> Truncated
                              [] OTHER -> untappd_venues_file
                       /\ pc' = IF find \in {"open-fails", "dump-fails"}
                                  THEN "crashed" ELSE pc
                       /\ vidx' = IF find = "none" THEN vidx + 1 ELSE vidx
                  /\ UNCHANGED <<metrics, current_run, now, attempted, fetched,
                                 scraping>>
             ELSE /\ \E resp \in IF venue.live THEN UntappdResponses(venue.id)
                                 ELSE {Raise("timeout")},
                        a \in {record_source_attempt(Self, source_name,
                                                     "untappd-checkins")} :
                       IF resp.kind = "raise"
                         THEN \E e \in {record_source_error(a, source_name,
                                                            resp.error, now + 1)} :
                                /\ metrics' = e.metrics
                                /\ current_run' = e.current_run
                                /\ fetched' = Append(fetched,
                                     [fn |-> "untappd", source |-> source_name,
                                      raised |-> TRUE, all_failed |-> TRUE,
                                      calls |-> <<"attempt", "error">>,
                                      returned |-> <<>>,
                                      run_entry |-> RunEntry(e, source_name),
                                      errors_added |-> ErrorCount(e, source_name)
                                                       - ErrorCount(Self, source_name),
                                      lookups |-> <<>>])
                                /\ vidx' = vidx + 1
                                /\ UNCHANGED scraping
                         ELSE /\ metrics' = a.metrics
                              /\ current_run' = a.current_run
                              /\ scraping' =
                                   <<[checkins |-> FirstN(resp.checkins, MaxCheckins),
                                      i |-> 1, posts |-> <<>>, lookups |-> <<>>,
                                      errors_before |-> ErrorCount(Self, source_name)]>>
                              /\ UNCHANGED <<fetched, vidx>>
                  /\ attempted' = attempted \cup {source_name}
                  /\ now' = now + 1
                  /\ UNCHANGED <<pc, untappd_cache, untappd_venues_file>>
    /\ UNCHANGED <<metrics_file, summary, calls, err_log, started_log, ended_log,
                   last_call, plan, environ, idx, all_posts, unique_posts, data_file,
                   run_no, cache_file, today, editing, beer_details_file,
                   beer_history_file, beers, dynamic_beers, loads, first_obs, venues, beer_cache,
                   auto_venues_file, adding>>

\* One iteration of "for checkin in checkins[:15]": a checkin with a beer URL
\* that beer_cache does not hold has its beer page requested, and the
\* producer of the page may be registered in auto_discovered_venues.json.
UntappdCheckin ==
    /\ pc = "untappd"
    /\ scraping # <<>>
    /\ scraping[1].i <= Len(scraping[1].checkins)
    /\ \E c \in {scraping[1].checkins[scraping[1].i]} :
         \E mode \in IF c.beer_url # "" /\ ~InCache(beer_cache, c.beer_url)
                       THEN BeerPageResponses(c.beer_url) ELSE {"full"} :
           \E r \in {checkin_iteration(venues[vidx].id, c, mode, beer_cache,
                                       auto_venues_file, now + 1)} :
             /\ scraping' = <<[scraping[1] EXCEPT
                                 !.i = @ + 1,
                                 !.posts = Append(@, r.post),
                                 !.lookups = Append(@, r.lookup)]>>
             /\ beer_cache' = r.beer_cache
             /\ auto_venues_file' = r.auto_venues_file
    /\ now' = now + 1
    /\ UNCHANGED <<metrics, current_run, metrics_file, summary, calls, attempted,
                   err_log, started_log, ended_log, last_call, run_vars, today,
                   editing, beer_details_file, beer_history_file, beers, dynamic_beers, loads,
                   first_obs, venues, vidx, untappd_cache, untappd_venues_file,
                   adding>>

\* After the loop over the checkins: record_source_success(len(posts)), the
\* return of scrape_untappd_checkins, and all_posts.extend(posts) in main().
UntappdReturn ==
    /\ pc = "untappd"
    /\ scraping # <<>>
    /\ scraping[1].i > Len(scraping[1].checkins)
    /\ \E source_name \in {UntappdSource(venues[vidx].id)} :
         \E self \in {record_source_success(Self, source_name,
                                            Len(scraping[1].posts))} :
           /\ metrics' = self.metrics
           /\ current_run' = self.current_run
           /\ all_posts' = all_posts \o scraping[1].posts
           /\ fetched' = Append(fetched,
                [fn |-> "untappd", source |-> source_name,
                 raised |-> FALSE, all_failed |-> FALSE,
                 calls |-> <<"attempt", "success">>,
                 returned |-> scraping[1].posts,
                 run_entry |-> RunEntry(self, source_name),
                 errors_added |-> ErrorCount(self, source_name)
                                  - scraping[1].errors_before,
                 lookups |-> scraping[1].lookups])
    /\ vidx' = vidx + 1
    /\ scraping' = <<>>
    /\ UNCHANGED <<metrics_file, summary, now, calls, attempted, err_log,
                   started_log, ended_log, last_call, plan, environ, pc, idx,
                   unique_posts, data_file, run_no, cache_file, today, editing,
                   beer_details_file, beer_history_file, beers, dynamic_beers, loads, first_obs,
                   venues, beer_cache, untappd_cache, untappd_venues_file,
                   auto_venues_file, adding>>

\* "if beer_cache:" beer_details.json is written, after the loop.  The write
\* is not guarded: when open() raises, main() ends there, with the file as
\* it was.
SaveBeerDetails ==
    /\ pc = "untappd"
    /\ vidx > Len(venues)
    /\ \E write_ok \in BOOLEAN :
         /\ write_ok \/ beer_cache # <<>>
         /\ beer_details_file' = IF write_ok /\ beer_cache # <<>>
                                   THEN <<beer_cache>> ELSE beer_details_file
         /\ pc' = IF write_ok THEN "dedup" ELSE "crashed"
    /\ UNCHANGED <<ledger_vars, plan, environ, idx, all_posts, unique_posts,
                   data_file, run_no, cache_file, fetched, today, editing,
                   beer_history_file, beers, dynamic_beers, loads, first_obs, untappd_vars>>

\* all_posts.extend(scrape_rss_feeds()) adds nothing, the dict of feeds
\* being empty; then the loop over all_posts.
DeduplicatePosts ==
    /\ pc = "dedup"
    /\ unique_posts' = Deduplicate(all_posts)
    /\ pc' = "save"
    /\ UNCHANGED <<ledger_vars, plan, environ, idx, all_posts, data_file,
                   run_no, cache_file, fetched, load_vars>>

OutputDocument(posts, t) == [last_run |-> t, posts |-> posts, count |-> Len(posts)]

\* save_results(unique_posts): "if unique_posts:" the document is written,
\* else nothing is.  The write is not guarded: when open() raises, main() ends there, with
\* the file as it was and neither the cache nor the ledger saved.
SaveResults ==
    /\ pc = "save"
    /\ \E write_ok \in BOOLEAN :
         /\ write_ok \/ unique_posts # <<>>
         /\ data_file' = IF write_ok /\ unique_posts # <<>>
                           THEN <<OutputDocument(unique_posts, now + 1)>>
                           ELSE data_file
         /\ pc' = IF write_ok THEN "end" ELSE "crashed"
    /\ now' = now + 1
    /\ UNCHANGED <<metrics, current_run, metrics_file, summary, calls, attempted, err_log,
                   started_log, ended_log, last_call, plan, environ, idx,
                   all_posts, unique_posts, run_no, cache_file, fetched, load_vars>>

\* The document save_cache writes: cache['last_run'] = now.
CacheDocument(t) == [scraped_urls |-> EmptyMap, last_run |-> t]

\* save_cache(cache); metrics.record_run_end(len(unique_posts));
\* metrics.save(); metrics.get_summary().  Neither write is guarded: an
\* exception leaves main() at once.
MainEnd ==
    /\ pc = "end"
    \* The writes at the end of main(): both succeed, or save_cache raises,
    \* or metrics.save raises.
    /\ \E outcome \in {"saved", "cache-write-fails", "metrics-write-fails"} :
         LET r == record_run_end(Self, Len(unique_posts), now + 1)
         IN  IF outcome = "cache-write-fails"
               THEN /\ pc' = "crashed"
                    /\ UNCHANGED <<metrics, current_run, metrics_file, summary,
                                   ended_log, cache_file>>
               ELSE /\ cache_file' = <<CacheDocument(now + 1)>>
                    /\ metrics' = r.metrics
                    /\ current_run' = r.current_run
                    /\ ended_log' = Append(ended_log, current_run[1].started_at)
                    /\ IF outcome = "metrics-write-fails"
                         THEN /\ pc' = "crashed"
                              /\ UNCHANGED <<metrics_file, summary>>
                         ELSE /\ pc' = "done"
                              /\ metrics_file' = <<r.metrics>>
                              /\ summary' = <<get_summary(r)>>
    /\ now' = now + 1
    /\ UNCHANGED <<calls, attempted, err_log, started_log, last_call, plan,
                   environ, idx, all_posts, unique_posts, data_file, run_no,
                   fetched, load_vars>>

\* The state before a run of main() in a deployment of `worlds`.  No store
\* exists but beer_details.json, when `details` holds its content; in a
\* stored deployment an earlier run left its output and its cache, and
\* what `ledger` holds in scraper_metrics.json.
InitMain(worlds, details) ==
    /\ \E w \in worlds :
         /\ LedgerInit(w.ledger)
         /\ plan = main_plan(w.live)
         /\ environ = w.env
         /\ venues = [i \in 1..Len(SYDNEY_VENUES) |->
                        [id |-> SYDNEY_VENUES[i].id,
                         untappd_id |-> SYDNEY_VENUES[i].untappd_id,
                         live |-> <<"untappd", SYDNEY_VENUES[i].id>> \in w.live]]
         /\ data_file = IF w.stored
                          THEN <<OutputDocument(BatchPosts(<<T1, T4>>), 0)>>
                          ELSE <<>>
         /\ cache_file = IF w.stored THEN <<CacheDocument(0)>> ELSE <<>>
    /\ pc = "idle"
    /\ idx = 1
    /\ all_posts = <<>>
    /\ unique_posts = <<>>
    /\ run_no = 0
    /\ fetched = <<>>
    /\ today = 0
    /\ beer_details_file = details
    /\ beer_history_file = <<>>
    /\ beers = <<>>
    /\ dynamic_beers = <<>>
    /\ loads = 0
    /\ first_obs = EmptyMap
    /\ editing = <<>>
    /\ vidx = 1
    /\ scraping = <<>>
    /\ beer_cache = <<>>
    /\ untappd_cache = EmptyMap
    /\ untappd_venues_file = <<>>
    /\ auto_venues_file = <<>>
    /\ adding = <<>>

\* Deployments in which two of the website and Instagram sources answer,
\* or the two enthusiast accounts do, or, after an earlier run, no source
\* or the Meta API, for which the token is set, or Untappd does for Harts
\* Pub, the last venue of the loop.
Init ==
    InitMain({[live |-> {<<"batch", "batch-brewing">>, <<"generic", "4-pines">>},
               env |-> {}, stored |-> FALSE, ledger |-> <<>>],
              [live |-> {<<"mountain", "mountain-culture">>,
                         <<"apify", "mountain-culture">>},
               env |-> {"APIFY_API_TOKEN"}, stored |-> FALSE, ledger |-> <<>>],
              [live |-> {<<"enthusiast", "craftbeer-sydney">>,
                         <<"enthusiast", "beer-sydney">>},
               env |-> {}, stored |-> FALSE, ledger |-> <<>>],
              [live |-> {}, env |-> {}, stored |-> TRUE, ledger |-> <<>>],
              [live |-> {<<"meta", "">>}, env |-> {"INSTAGRAM_ACCESS_TOKEN"},
               stored |-> TRUE, ledger |-> <<>>],
              [live |-> {<<"meta", "">>}, env |-> {"INSTAGRAM_ACCESS_TOKEN"},
               stored |-> TRUE, ledger |-> <<StoredLedger>>],
              [live |-> {<<"untappd", "harts-pub">>}, env |-> {},
               stored |-> FALSE, ledger |-> <<>>]}, <<>>)

Next ==
    \/ MainStart
    \/ ScrapeWebsiteBatchBrewing
    \/ ScrapeWebsiteMountainCulture
    \/ ScrapeGenericWebsite
    \/ ScrapeAllWithMeta
    \/ ScrapeInstagramApify
    \/ ScrapeEnthusiastAccount
    \/ LoadUntappdCaches
    \/ UntappdVenue
    \/ UntappdCheckin
    \/ UntappdReturn
    \/ SaveBeerDetails
    \/ DeduplicatePosts
    \/ SaveResults
    \/ MainEnd

Spec == Init /\ [][Next]_vars

(***************************************************************************)
(* The admin API (index.py, admin_utils.py) without Blob storage: every    *)
(* POST /api/admin/venues/add runs add_configured_venue, which reads       *)
(* untappd_venues.json, sets one key, opens the file for writing, which    *)
(* empties it, and writes the document.  The server handles requests       *)
(* concurrently, so the read, the open and the write of one call are three *)
(* steps, and steps of other calls can come between them.                  *)
(***************************************************************************)
\* slug = name.lower().replace(' ', '-').replace("'", "").replace('&', 'and'),
\* then only the alphanumeric characters and '-' are kept.
venue_slug(name) ==
    CASE name = "Hotel Sweeney's" -> "hotel-sweeneys"
      [] name = "Bitter Phew" -> "bitter-phew"
      [] name = "JB & Sons" -> "jb-and-sons"

\* add_new_venue: a request with a name and an id enters add_configured_venue.
AddNewVenue ==
    /\ Len(adding) < MaxRequests
    /\ \E name \in {"Hotel Sweeney's", "Bitter Phew", "JB & Sons"},
          venue_id \in {"107565", "9234"} :
         adding' = Append(adding, [name |-> name, venue_id |-> venue_id,
                                   step |-> "read", data |-> EmptyMap])
    /\ UNCHANGED <<ledger_vars, run_vars, today, editing, beer_details_file,
                   beer_history_file, beers, dynamic_beers, loads, first_obs, venues,
                   vidx, scraping, beer_cache, untappd_cache, untappd_venues_file,
                   auto_venues_file>>

\* data = get_configured_venues(): {} when the file is absent.  json.load
\* raises on a file that does not hold a whole document; the exception
\* leaves add_configured_venue and add_new_venue answers with status 500.
GetConfiguredVenues ==
    /\ \E r \in 1..Len(adding) :
         /\ adding[r].step = "read"
         /\ adding' =
              IF untappd_venues_file = <<>>
                THEN [adding EXCEPT ![r].step = "open"]
              ELSE IF untappd_venues_file[1].complete
                THEN [adding EXCEPT ![r].step = "open",
                                    ![r].data = untappd_venues_file[1].data]
              ELSE [adding EXCEPT ![r].step = "error"]
    /\ UNCHANGED <<ledger_vars, run_vars, today, editing, beer_details_file,
                   beer_history_file, beers, dynamic_beers, loads, first_obs, venues,
                   vidx, scraping, beer_cache, untappd_cache, untappd_venues_file,
                   auto_venues_file>>

\* data[slug] = venue_id and open(VENUES_FILE, 'w'), which empties the file;
\* an exception of open() is printed and the call returns all the same.
OpenConfiguredVenues ==
    /\ \E r \in 1..Len(adding), open_ok \in BOOLEAN :
         /\ adding[r].step = "open"
         /\ adding' = [adding EXCEPT
                          ![r].step = IF open_ok THEN "dump" ELSE "failed",
                          ![r].data = (venue_slug(adding[r].name) :> adding[r].venue_id)
                                      @@ adding[r].data]
         /\ untappd_venues_file' = IF open_ok THEN Truncated
                                   ELSE untappd_venues_file
    /\ UNCHANGED <<ledger_vars, run_vars, today, editing, beer_details_file,
                   beer_history_file, beers, dynamic_beers, loads, first_obs, venues,
                   vidx, scraping, beer_cache, untappd_cache, auto_venues_file>>

\* json.dump(data, f) and the close of the file, which writes the document
\* from the start of the file; an exception is printed and the call returns
\* all the same, with the file as it was.
WriteConfiguredVenues ==
    /\ \E r \in 1..Len(adding), write_ok \in BOOLEAN :
         /\ adding[r].step = "dump"
         /\ adding' = [adding EXCEPT
                          ![r].step = IF write_ok THEN "written" ELSE "failed"]
         /\ untappd_venues_file' =
              IF write_ok THEN Overwritten(untappd_venues_file, adding[r].data)
              ELSE untappd_venues_file
    /\ UNCHANGED <<ledger_vars, run_vars, today, editing, beer_details_file,
                   beer_history_file, beers, dynamic_beers, loads, first_obs, venues,
                   vidx, scraping, beer_cache, untappd_cache, auto_venues_file>>

InitAdmin ==
    /\ LedgerInit(<<>>)
    /\ NoMain
    /\ NoLoad
    /\ NoUntappd

NextAdmin ==
    \/ AddNewVenue
    \/ GetConfiguredVenues
    \/ OpenConfiguredVenues
    \/ WriteConfiguredVenues

SpecAdmin == InitAdmin /\ [][NextAdmin]_vars

(***************************************************************************)
(* The tools that write the stores: manual_add.py, scripts/scrape.py and   *)
(* scripts/reset_data.py.  Each is a process of its own, which can run     *)
(* while main() does.  A tool reads the wall clock `today`, whose half day *)
(* 0 is the midnight of 1 January 2024.                                    *)
(***************************************************************************)
\* manual_add.py: main() with --venue, --name, --style and --abv, or
\* interactive_add().  The latter imports data.py for its list of breweries
\* and asks for the brewery and the beer, which is a step of its own with an
\* entry in `editing`; no ABV is typed (5.0 is taken), and last_manual_add is
\* set.  Then, in both, the document of dynamic_updates.json is loaded, a
\* beer and its post are appended, and the document is written back.
\* Neither the read nor the write is guarded: when one raises, the process
\* ends with the file as it was.
ManualAdd ==
    /\ IF Len(data_file) = 1 /\ "manual_beers" \in DOMAIN data_file[1]
         THEN Len(data_file[1].manual_beers) < MaxManualAdds
         ELSE TRUE
    /\ \/ /\ Len(editing) < MaxEdits
          /\ ImportData
          /\ editing' = Append(editing,
                  [tool |-> "manual_add", step |-> "loaded", beers |-> <<>>,
                   found |-> FALSE, upto |-> 0])
          /\ UNCHANGED data_file
       \/ \E interactive, io_ok \in BOOLEAN :
            \E i \in IF interactive
                       THEN {j \in 1..Len(editing) :
                               /\ editing[j].tool = "manual_add"
                               /\ editing[j].step = "loaded"}
                       ELSE {0},
               \* [v for v in SYDNEY_VENUES if v.type == "brewery"]
               breweries \in {SelectSeq(SYDNEY_VENUES,
                                        LAMBDA v : v.type = "brewery")} :
              \E venue_id \in IF interactive
                                THEN {breweries[Len(breweries)].id}
                                ELSE {"batch-brewing"} :
              LET \* load_existing()
                  data == IF Len(data_file) = 1 THEN data_file[1]
                          ELSE [posts |-> <<>>, manual_beers |-> <<>>]
                  \* f"beer-manual-{datetime.now().strftime('%Y%m%d%H%M%S')}"
                  id == CASE today = 0 -> "beer-manual-20240101000000"
                          [] today = 15 -> "beer-manual-20240108120000"
                          [] today = 30 -> "beer-manual-20240116000000"
                          [] today = 61 -> "beer-manual-20240131120000"
                          [] today = 76 -> "beer-manual-20240208000000"
                  beer == [id |-> id, name |-> "Tropical Hazy",
                           brewery_id |-> venue_id, style |-> "NEIPA",
                           release_date |-> today]
                  post == Post(venue_id, "manual",
                               IF interactive
                                 THEN ":beer: NEW: Tropical Hazy (NEIPA, 5.0%)"
                                 ELSE ":beer: NEW: Tropical Hazy (NEIPA, 6.5%)",
                               <<today>>)
                  manual_beers == IF "manual_beers" \in DOMAIN data
                                    THEN data.manual_beers ELSE <<>>
                  posts == IF "posts" \in DOMAIN data THEN data.posts ELSE <<>>
                  added == ("manual_beers" :> Append(manual_beers, beer))
                           @@ ("posts" :> Append(posts, post)) @@ data
              IN  /\ data_file' =
                       IF ~io_ok THEN data_file
                       ELSE IF interactive
                         THEN <<("last_manual_add" :> today) @@ added>>
                       ELSE <<added>>
                  /\ editing' =
                       IF interactive
                         THEN [editing EXCEPT ![i].step = IF io_ok THEN "saved"
                                                          ELSE "crashed"]
                         ELSE editing
                  /\ UNCHANGED <<beer_history_file, beers, dynamic_beers,
                                 first_obs>>
    /\ UNCHANGED <<ledger_vars, plan, environ, pc, idx, all_posts,
                   unique_posts, run_no, cache_file, fetched, today,
                   beer_details_file, loads, untappd_vars>>

\* main() of scripts/scrape.py, which imports data.py.  The document of
\* dynamic_updates.json is loaded and its last_run set; with the demo update
\* (random.random() < 0.3) the beer of generate_sample_update, for a brewery
\* and a style that random.choice picks, is appended to manual_entries and
\* its post becomes latest_posts, and the document is written back with its
\* other keys; without it nothing is written.  Neither the read nor the
\* write is guarded.  update_data_timestamp() then rewrites data.py, which
\* is no store of the model.
ScrapePlaceholders ==
    /\ ImportData
    \* demo: no demo update, or one and the read or the write of the
    \* document raises, which leaves the document as it was; one, for the
    \* brewery and the style picked, which is saved.
    /\ \E breweries \in {SelectSeq(SYDNEY_VENUES, LAMBDA v : v.type = "brewery")},
          demo \in {<<"none", "first", "IPA">>, <<"saved", "first", "IPA">>,
                    <<"saved", "last", "Stout">>} :
         LET \* load_updates()
             updates == IF Len(data_file) = 1 THEN data_file[1]
                        ELSE [last_run |-> -1, manual_entries |-> <<>>]
             manual_entries == IF "manual_entries" \in DOMAIN updates
                                 THEN updates.manual_entries ELSE <<>>
             \* random.choice(breweries)
             brewery == IF demo[2] = "first" THEN breweries[1]
                        ELSE breweries[Len(breweries)]
             \* f"beer-{now.strftime('%Y%m%d%H%M')}"
             beer_id_of_minute == CASE today = 0 -> "beer-202401010000"
                                    [] today = 15 -> "beer-202401081200"
                                    [] today = 30 -> "beer-202401160000"
                                    [] today = 61 -> "beer-202401311200"
                                    [] today = 76 -> "beer-202402080000"
             post_id_of_minute == CASE today = 0 -> "post-202401010000"
                                    [] today = 15 -> "post-202401081200"
                                    [] today = 30 -> "post-202401160000"
                                    [] today = 61 -> "post-202401311200"
                                    [] today = 76 -> "post-202402080000"
             \* f"Limited Release - {now.strftime('%b %d')}"
             name == CASE today = 0 -> "Limited Release - Jan 01"
                       [] today = 15 -> "Limited Release - Jan 08"
                       [] today = 30 -> "Limited Release - Jan 16"
                       [] today = 61 -> "Limited Release - Jan 31"
                       [] today = 76 -> "Limited Release - Feb 08"
             content == CASE brewery.id = "young-henrys" ->
                               ":beer: NEW BEER ALERT! Just dropped today - come try it fresh! #young-henrys"
                          [] brewery.id = "batch-brewing" ->
                               ":beer: NEW BEER ALERT! Just dropped today - come try it fresh! #batch-brewing"
                          [] brewery.id = "wayward-brewing" ->
                               ":beer: NEW BEER ALERT! Just dropped today - come try it fresh! #wayward-brewing"
                          [] brewery.id = "grifter-brewing" ->
                               ":beer: NEW BEER ALERT! Just dropped today - come try it fresh! #grifter-brewing"
                          [] brewery.id = "the-rocks-brewing" ->
                               ":beer: NEW BEER ALERT! Just dropped today - come try it fresh! #the-rocks-brewing"
                          [] brewery.id = "bracket-brewing" ->
                               ":beer: NEW BEER ALERT! Just dropped today - come try it fresh! #bracket-brewing"
                          [] brewery.id = "future-brewing" ->
                               ":beer: NEW BEER ALERT! Just dropped today - come try it fresh! #future-brewing"
                          [] brewery.id = "range-brewing" ->
                               ":beer: NEW BEER ALERT! Just dropped today - come try it fresh! #range-brewing"
                          [] brewery.id = "mountain-culture" ->
                               ":beer: NEW BEER ALERT! Just dropped today - come try it fresh! #mountain-culture"
                          [] brewery.id = "kicks-brewing" ->
                               ":beer: NEW BEER ALERT! Just dropped today - come try it fresh! #kicks-brewing"
                          [] brewery.id = "4-pines" ->
                               ":beer: NEW BEER ALERT! Just dropped today - come try it fresh! #4-pines"
                          [] brewery.id = "white-bay" ->
                               ":beer: NEW BEER ALERT! Just dropped today - come try it fresh! #white-bay"
                          [] brewery.id = "mountain-culture-redfern" ->
                               ":beer: NEW BEER ALERT! Just dropped today - come try it fresh! #mountain-culture-redfern"
                          [] brewery.id = "mountain-culture-emu-plains" ->
                               ":beer: NEW BEER ALERT! Just dropped today - come try it fresh! #mountain-culture-emu-plains"
                          [] brewery.id = "seeker-brewing" ->
                               ":beer: NEW BEER ALERT! Just dropped today - come try it fresh! #seeker-brewing"
                          [] brewery.id = "bay-road-brewing" ->
                               ":beer: NEW BEER ALERT! Just dropped today - come try it fresh! #bay-road-brewing"
                          [] brewery.id = "ekim-brewing" ->
                               ":beer: NEW BEER ALERT! Just dropped today - come try it fresh! #ekim-brewing"
                          [] brewery.id = "philter-brewing" ->
                               ":beer: NEW BEER ALERT! Just dropped today - come try it fresh! #philter-brewing"
                          [] brewery.id = "sauce-brewing" ->
                               ":beer: NEW BEER ALERT! Just dropped today - come try it fresh! #sauce-brewing"
             \* abv, which random.uniform draws, is left out
             new_beer == [id |-> beer_id_of_minute, name |-> name,
                          brewery_id |-> brewery.id, style |-> demo[3],
                          description |-> "Fresh release scraped from brewery socials",
                          release_date |-> today, is_new_release |-> TRUE]
             new_post == [id |-> post_id_of_minute, venue_id |-> brewery.id,
                          platform |-> "instagram", content |-> content,
                          posted_at |-> today, mentions_beers |-> <<new_beer.id>>]
         IN  /\ demo[1] # "none" => Len(manual_entries) < MaxDemoUpdates
             /\ data_file' =
                  IF demo[1] = "saved"
                    THEN <<("last_run" :> today)
                           @@ ("manual_entries" :> Append(manual_entries, new_beer))
                           @@ ("latest_posts" :> <<new_post>>) @@ updates>>
                    ELSE data_file
    /\ UNCHANGED <<ledger_vars, plan, environ, pc, idx, all_posts,
                   unique_posts, run_no, cache_file, fetched, today, editing,
                   beer_details_file, loads, untappd_vars>>

\* scripts/reset_data.py: main() resets six stores, one reset_file call
\* after the other, none of them guarded: when open() of a store raises,
\* the process ends; that store and the stores after it stay as they were.  A step is
\* the start of the process, or its next reset_file call; the entry of the
\* process in `editing` counts in upto the stores it has reset.  last_run of
\* the cache is None (-1); created_at and note of the ledger's document are
\* keys the ledger never reads.
ResetData ==
    \/ /\ Len(editing) < MaxEdits
       /\ editing' = Append(editing,
               [tool |-> "reset_data", step |-> "loaded", beers |-> <<>>,
                found |-> FALSE, upto |-> 0])
       /\ UNCHANGED <<beer_details_file, beer_history_file, data_file, cache_file,
                      metrics_file, untappd_venues_file>>
    \/ \E i \in 1..Len(editing), write_ok \in BOOLEAN :
         LET e == editing[i]
             Reset(n, file, default_data) ==
                 IF write_ok /\ e.upto + 1 = n THEN default_data ELSE file
         IN  /\ e.tool = "reset_data"
             /\ e.step = "loaded"
             /\ beer_details_file' = Reset(1, beer_details_file, <<<<>>>>)
             /\ beer_history_file' = Reset(2, beer_history_file, <<EmptyMap>>)
             /\ data_file' = Reset(3, data_file,
                    <<[last_run |-> today, posts |-> <<>>, count |-> 0]>>)
             /\ cache_file' = Reset(4, cache_file, <<CacheDocument(-1)>>)
             /\ metrics_file' = Reset(5, metrics_file,
                    <<[sources |-> EmptyMap, runs |-> <<>>]>>)
             /\ untappd_venues_file' = Reset(6, untappd_venues_file,
                                             Overwritten(Truncated, EmptyMap))
             /\ editing' = [editing EXCEPT ![i] =
                              [e EXCEPT !.upto = IF write_ok THEN @ + 1 ELSE @,
                                        !.step = IF ~write_ok THEN "crashed"
                                                 ELSE IF e.upto + 1 = 6 THEN "saved"
                                                 ELSE "loaded"]]
    /\ UNCHANGED <<metrics, current_run, summary, now, calls, attempted, err_log,
                   started_log, ended_log, last_call, plan, environ, pc, idx,
                   all_posts, unique_posts, run_no, fetched, today, beers,
                   dynamic_beers, loads, first_obs, venues, vidx, scraping,
                   beer_cache, untappd_cache, auto_venues_file, adding>>

\* Deployments in which the website of Batch Brewing answers, or Untappd
\* does for Harts Pub.
InitManual ==
    InitMain({[live |-> {<<"batch", "batch-brewing">>}, env |-> {},
               stored |-> FALSE, ledger |-> <<>>],
              [live |-> {<<"untappd", "harts-pub">>}, env |-> {},
               stored |-> FALSE, ledger |-> <<>>]}, <<>>)

NextManual == Next \/ ManualAdd \/ ScrapePlaceholders \/ ResetData

SpecManual == InitManual /\ [][NextManual]_vars

(***************************************************************************)
(* A deployment in which Untappd answers for Hotel Sweeney's, which has    *)
(* its untappd_id, and for JB & Sons, the next venue, which has none.  An  *)
(* earlier run left the details of one beer in beer_details.json.          *)
(***************************************************************************)
InitUntappd ==
    InitMain({[live |-> {<<"untappd", "hotel-sweeneys">>,
                         <<"untappd", "jb-and-sons">>},
               env |-> {}, stored |-> FALSE, ledger |-> <<>>]},
             <<<<BeerPage("https://untappd.com/b/young-henrys-newtowner/1")>>>>)

SpecUntappd == InitUntappd /\ [][Next]_vars

\* A deployment in which Untappd answers for Noble Hops and for Bitter
\* Phew, a later venue of the loop, and no store exists.
InitDiscovery ==
    InitMain({[live |-> {<<"untappd", "noble-hops">>, <<"untappd", "bitter-phew">>},
               env |-> {}, stored |-> FALSE, ledger |-> <<>>]}, <<>>)

SpecDiscovery == InitDiscovery /\ [][Next]_vars

\* A process imports data.py: the web application, or a tool.
LoadBeersFromUntappd ==
    /\ loads < MaxLoads
    /\ loads' = loads + 1
    /\ ImportData
    /\ UNCHANGED <<ledger_vars, run_vars, today, editing, beer_details_file, untappd_vars>>

\* timedelta(days=d), in half days.
timedelta_days(d) == 2 * d

\* RecommendationEngine.get_new_releases(days) at time t: the beers whose
\* release_date >= t - timedelta(days=days).
get_new_releases(all_beers, days, t) ==
    SelectSeq(all_beers, LAMBDA beer : beer.release_date >= t - timedelta_days(days))

\* Time passes between loads: seven and a half days, or thirty and a half.
\* A run of main() takes minutes: no half day ends while one is under way.
TimePasses ==
    /\ pc \in {"idle", "done", "crashed"}
    /\ \E h \in {15, 61} : today + h <= MaxToday /\ today' = today + h
    /\ UNCHANGED <<ledger_vars, run_vars, beer_details_file, beer_history_file,
                   beers, dynamic_beers, loads, first_obs, editing, untappd_vars>>

(***************************************************************************)
(* The tools that rewrite beer_details.json: scripts/update_ratings.py,    *)
(* scripts/content_generator.py and scripts/fetch_beer_photos.py.  Each is *)
(* a process that loads the file at its start, sets fields in the details  *)
(* it loaded, and writes what it holds over the file: the load and a write *)
(* are two steps, and steps of main() and of other tools can come between  *)
(* them.  An entry of `editing` is [tool, step, beers, found, upto]; a     *)
(* process whose load raises ends at once and leaves no entry.             *)
(***************************************************************************)

\* update_ratings(): every beer page is requested; `found` tells whether the
\* pages show a rating.  beer_details.json is written in the loop whenever
\* updated_count is a positive multiple of five, and after the loop.  No
\* write is guarded: when one raises, the process ends there.
UpdateRatings ==
    \/ /\ Len(editing) < MaxEdits
       /\ \E found \in BOOLEAN :
            editing' = Append(editing,
                [tool |-> "update_ratings", step |-> "loaded",
                 beers |-> load_json(beer_details_file), found |-> found,
                 upto |-> 0])
       /\ UNCHANGED beer_details_file
    \/ \E i \in 1..Len(editing), write_ok \in BOOLEAN :
         LET e == editing[i]
             periodic == e.found /\ e.upto + 5 <= Len(e.beers)
             upto == IF periodic THEN e.upto + 5 ELSE Len(e.beers)
             rated == [j \in 1..Len(e.beers) |->
                         IF e.found /\ j > e.upto /\ j <= upto
                           THEN ("rating" :> "3.8") @@ ("checkin_count" :> 120)
                                @@ e.beers[j]
                           ELSE e.beers[j]]
         IN  /\ e.tool = "update_ratings"
             /\ e.step = "loaded"
             /\ beer_details_file' = IF write_ok THEN <<rated>>
                                     ELSE beer_details_file
             /\ editing' = [editing EXCEPT ![i] =
                              [e EXCEPT !.beers = rated, !.upto = upto,
                                        !.step = IF ~write_ok THEN "crashed"
                                                 ELSE IF periodic THEN "loaded"
                                                 ELSE "saved"]]
    /\ UNCHANGED <<ledger_vars, run_vars, today, beer_history_file, beers, dynamic_beers, loads,
                   first_obs, untappd_vars>>

\* run_content_generation(): load_data() reads beer_details.json.  The beers
\* that calculate_beer_scores lists are those with an Australian location
\* (of the locations of the model, the ones with "nsw") and those that two
\* posts or more mention, which no beer of the model is; each of them that
\* lacks a description, an abv or a rating has its page requested, and what
\* scrape_untappd_details finds there (`found` tells whether it finds the
\* fields; the style is the one of the page) is merged into its details.
\* The details are written back when the file exists, in a try whose
\* except passes.
RunContentGeneration ==
    \/ /\ Len(editing) < MaxEdits
       /\ \E found \in BOOLEAN :
            editing' = Append(editing,
                [tool |-> "content_generator", step |-> "loaded",
                 beers |-> load_json(beer_details_file), found |-> found,
                 upto |-> 0])
       /\ UNCHANGED beer_details_file
    \/ \E i \in 1..Len(editing), write_ok \in BOOLEAN :
         LET e == editing[i]
             listed(d) == /\ d.brewery_location # ""
                          /\ "nsw" \in KeywordsIn(Lower(d.brewery_location))
             should_scrape(d) ==
                 ~({"description", "abv", "rating"} \subseteq DOMAIN d)
             merged == [j \in 1..Len(e.beers) |->
                          IF /\ e.found
                             /\ listed(e.beers[j])
                             /\ should_scrape(e.beers[j])
                            THEN ("abv" :> "6.5") @@ ("rating" :> "3.8")
                                 @@ ("description" :> "Juicy") @@ e.beers[j]
                            ELSE e.beers[j]]
         IN  /\ e.tool = "content_generator"
             /\ e.step = "loaded"
             /\ beer_details_file' = IF write_ok /\ beer_details_file # <<>>
                                       THEN <<merged>> ELSE beer_details_file
             /\ editing' = [editing EXCEPT ![i] =
                              [e EXCEPT !.beers = merged, !.upto = Len(e.beers),
                                        !.step = "saved"]]
    /\ UNCHANGED <<ledger_vars, run_vars, today, beer_history_file, beers, dynamic_beers, loads,
                   first_obs, untappd_vars>>

\* fetch_photos(): the beers of top_10_beers.json, a store the model does
\* not hold, that are in the details loaded get recent_photos when their
\* page shows photos; `found` tells whether the beers loaded are listed
\* there with photos on their pages.  The details are written back after
\* the loop; the write is not guarded.
FetchPhotos ==
    \/ /\ Len(editing) < MaxEdits
       /\ \E found \in BOOLEAN :
            editing' = Append(editing,
                [tool |-> "fetch_beer_photos", step |-> "loaded",
                 beers |-> load_json(beer_details_file), found |-> found,
                 upto |-> 0])
       /\ UNCHANGED beer_details_file
    \/ \E i \in 1..Len(editing), write_ok \in BOOLEAN :
         LET e == editing[i]
             shown == [j \in 1..Len(e.beers) |->
                         IF e.found
                           THEN ("recent_photos" :> <<"/images/cache/1.jpg">>)
                                @@ e.beers[j]
                           ELSE e.beers[j]]
         IN  /\ e.tool = "fetch_beer_photos"
             /\ e.step = "loaded"
             /\ beer_details_file' = IF write_ok THEN <<shown>>
                                     ELSE beer_details_file
             /\ editing' = [editing EXCEPT ![i] =
                              [e EXCEPT !.beers = shown, !.upto = Len(e.beers),
                                        !.step = IF write_ok THEN "saved"
                                                 ELSE "crashed"]]
    /\ UNCHANGED <<ledger_vars, run_vars, today, beer_history_file, beers, dynamic_beers, loads,
                   first_obs, untappd_vars>>

\* The module-level merge of data.py: the beers whose id is not among the
\* ids the list had before the loop are appended.
merge_beers(existing, found) ==
    existing \o SelectSeq(found, LAMBDA beer :
                    \A i \in 1..Len(existing) : existing[i].id # beer.id)

\* SYDNEY_BEERS after the merge of the Untappd beers into the static list,
\* which is empty, and the merge of the dynamic beers into the result.
SYDNEY_BEERS == merge_beers(merge_beers(<<>>, beers), dynamic_beers)

\* A deployment in which Untappd answers for Young Henrys, the first venue
\* of the loop: the run of main() writes beer_details.json, the tools
\* rewrite it, and the data module is loaded as time passes.
InitLoad ==
    InitMain({[live |-> {<<"untappd", "young-henrys">>}, env |-> {},
               stored |-> FALSE, ledger |-> <<>>]}, <<>>)

NextLoad ==
    \/ Next
    \/ LoadBeersFromUntappd
    \/ TimePasses
    \/ UpdateRatings
    \/ RunContentGeneration
    \/ FetchPhotos

SpecLoad == InitLoad /\ [][NextLoad]_vars

(***************************************************************************)
(* Loads over a cache that holds two beers: one of any of the producer     *)
(* names, and one of a producer that is an alias key or matches two venues *)
(* by substring.                                                           *)
(***************************************************************************)
InitResolve ==
    /\ NoMain
    /\ LedgerInit(<<>>)
    /\ today = 0
    /\ \E p \in {"Young Henrys", "Batch Brewing Company", "Hawkes Brewing Co",
                  "Garage Project", "Stone & Wood", "", " ", "JB & Sons Manly",
                  "JB and Sons", "Wayward", "  Sauce Brewing Co ", "Bay Rd Brewing",
                  "Brewing", "The Union Hotel Newtown", "Mountain Culture"},
          q \in {"Mountain Culture", "JB & Sons Manly"} :
         beer_details_file =
             <<<<BeerData("https://untappd.com/b/house-lager/9", "House Lager",
                          p, "", ""),
                 BeerData("https://untappd.com/b/house-lager/10", "House Lager",
                          q, "", "")>>>>
    /\ beer_history_file = <<>>
    /\ beers = <<>>
    /\ dynamic_beers = <<>>
    /\ loads = 0
    /\ first_obs = EmptyMap
    /\ editing = <<>>
    /\ NoUntappd

NextResolve == LoadBeersFromUntappd \/ TimePasses

SpecResolve == InitResolve /\ [][NextResolve]_vars

(***************************************************************************)
(* Claims about the Metrics Ledger.                                        *)
(***************************************************************************)

\* C1: for every source, after any sequence of record_source_attempt and
\* record_source_success calls, successes <= attempts.
C1_SuccessesAtMostAttempts ==
    \A s \in DOMAIN metrics.sources :
        metrics.sources[s].successes <= metrics.sources[s].attempts

\* The record_source_error calls for s that found s in the ledger, in call order.
RecordedErrors(s) == SelectSeq(err_log[s], LAMBDA e : e.known)

SameErrors(errors, log) ==
    /\ Len(errors) = Len(log)
    /\ \A i \in 1..Len(errors) :
         errors[i].time = log[i].time /\ errors[i].error = log[i].error

\* C5 as stated: after n record_source_error calls for a source, its error
\* list has length min(n, 10), counting every call made for that source name.
C5_ErrorListCountsEveryCall ==
    \A s \in DOMAIN metrics.sources \cap LedgerSources :
        Len(metrics.sources[s].errors) = Min(Len(err_log[s]), MaxErrors)

\* C5 amended: for every source of the ledger, after n record_source_error
\* calls made while the source has a ledger entry, its error list has length
\* min(n, 10) and holds the most recent of those messages in call order.
C5_ErrorListIsLastTenRecorded ==
    \A s \in DOMAIN metrics.sources \cap LedgerSources :
        /\ Len(metrics.sources[s].errors) = Min(Len(RecordedErrors(s)), MaxErrors)
        /\ SameErrors(metrics.sources[s].errors,
                      LastN(RecordedErrors(s), MaxErrors))

\* A source that received 15 recorded errors and holds exactly the last 10.
C5_Witness ==
    \E s \in DOMAIN metrics.sources \cap LedgerSources :
        /\ Len(RecordedErrors(s)) = 15
        /\ Len(metrics.sources[s].errors) = 10
        /\ metrics.sources[s].errors[1].time = RecordedErrors(s)[6].time
        /\ metrics.sources[s].errors[10].time = RecordedErrors(s)[15].time

\* C9: the run history holds at most 50 records, they are the most recently
\* ended runs in order, and a record is in the history only after its run ended.
C9_HistoryIsLastFiftyEndedRuns ==
    /\ Len(metrics.runs) <= MaxRuns
    /\ Len(metrics.runs) = Min(Len(ended_log), MaxRuns)
    /\ \A i \in 1..Len(metrics.runs) :
         /\ metrics.runs[i].started_at = LastN(ended_log, MaxRuns)[i]
         /\ metrics.runs[i].ended_at > metrics.runs[i].started_at
    /\ \A i \in 1..Len(current_run) :
         \A j \in 1..Len(metrics.runs) :
            metrics.runs[j].started_at # current_run[i].started_at

\* 52 runs have ended and the history holds the last 50, the two oldest evicted.
C9_Witness ==
    /\ Len(ended_log) = 52
    /\ Len(metrics.runs) = 50
    /\ metrics.runs[1].started_at = ended_log[3]
    /\ metrics.runs[50].started_at = ended_log[52]

\* C10: record_source_success for a source not attempted in the current
\* process changes neither its successes nor its items_found.
C10_SuccessWithoutAttemptIsNoOp ==
    (last_call.op = "success" /\ ~last_call.was_attempted) =>
        LET s == last_call.source
        IN  IF s \in DOMAIN last_call.before
              THEN /\ s \in DOMAIN metrics.sources
                   /\ metrics.sources[s].successes = last_call.before[s].successes
                   /\ metrics.sources[s].items_found = last_call.before[s].items_found
              ELSE s \notin DOMAIN metrics.sources

(***************************************************************************)
(* Claims about data loading.                                              *)
(***************************************************************************)

\* C2: for every identity key and every sequence of data loads that observe
\* it, the first-seen time stored and returned for the key is the time of its
\* first observation.
C2_FirstSeenIsFirstObservation ==
    /\ \A k \in DOMAIN first_obs :
         (Len(beer_history_file) = 1 /\ k \in DOMAIN beer_history_file[1])
            => beer_history_file[1][k] = first_obs[k]
    /\ \A i \in 1..Len(beers) : beers[i].release_date = first_obs[beers[i].key]

(***************************************************************************)
(* Claims about the fetchers and the run controller.                       *)
(***************************************************************************)
RunClosed == pc = "done"

Deduplicated == pc \in {"save", "end", "done"}

RECURSIVE Concat(_, _)
Concat(log, n) == IF n = 0 THEN <<>> ELSE Concat(log, n - 1) \o log[n].returned

IsFirstOccurrence(posts, i) ==
    \A j \in 1..(i - 1) :
        get_content_hash(posts[j].content) # get_content_hash(posts[i].content)

RECURSIVE FirstOccurrences(_, _)
FirstOccurrences(posts, n) ==
    IF n = 0 THEN <<>>
    ELSE IF IsFirstOccurrence(posts, n)
      THEN Append(FirstOccurrences(posts, n - 1), posts[n])
      ELSE FirstOccurrences(posts, n - 1)

\* C3: the deduplicated output is the subsequence of the concatenated fetcher
\* results, in invocation order, made of the first occurrence of each distinct
\* content hash; no two of its items have the same content hash.
C3_OutputIsFirstOccurrences ==
    Deduplicated =>
        /\ all_posts = Concat(fetched, Len(fetched))
        /\ unique_posts = FirstOccurrences(all_posts, Len(all_posts))
        /\ \A i, j \in 1..Len(unique_posts) :
             i # j => get_content_hash(unique_posts[i].content)
                        # get_content_hash(unique_posts[j].content)

\* A closed run whose two fetchers returned an item of the same content, and
\* one of them the same content twice: the output keeps one item of each.
C3_Witness ==
    /\ RunClosed
    /\ \E a, b \in 1..Len(fetched) :
         /\ a < b
         /\ \E i \in 1..Len(fetched[a].returned), j \in 1..Len(fetched[b].returned) :
              fetched[a].returned[i].content = fetched[b].returned[j].content
    /\ Len(unique_posts) >= 2
    /\ Len(unique_posts) < Len(all_posts)
    /\ unique_posts[1] = all_posts[1]

Failed(e) == e.raised \/ e.all_failed

LastRun == metrics.runs[Len(metrics.runs)]

DataPosts == IF Len(data_file) = 1 THEN data_file[1].posts ELSE <<>>

\* C4: if in one run fetcher A fails and fetcher B succeeds with 3 items, the
\* run completes, the merged output holds exactly B's 3 items (deduplicated),
\* and the RunRecord shows A with success=false, B with success=true, items=3.
C4_PartialFailureIsolation ==
    RunClosed =>
        \A a, b \in 1..Len(fetched) :
            ( /\ \A k \in 1..Len(fetched) :
                   k \notin {a, b} => Failed(fetched[k]) /\ fetched[k].returned = <<>>
              /\ fetched[a].source # fetched[b].source
              /\ Failed(fetched[a])
              /\ ~Failed(fetched[b])
              /\ Len(fetched[b].returned) = 3 )
            => /\ DataPosts = Deduplicate(fetched[b].returned)
               /\ LastRun.sources[fetched[a].source].success = FALSE
               /\ LastRun.sources[fetched[b].source].success = TRUE
               /\ LastRun.sources[fetched[b].source].items = 3

\* C6: after every completed run the persisted output document holds exactly
\* that run's deduplicated items, whatever their number.
C6_OutputReplacedByEveryRun == RunClosed => DataPosts = unique_posts

Count(ledger_calls, op) ==
    Cardinality({i \in 1..Len(ledger_calls) : ledger_calls[i] = op})

\* C7: a fetcher invocation in which an exception occurs records the error
\* exactly once, records no success, and returns an empty list.
C7_ExceptionGivesErrorAndNoItems ==
    \A i \in 1..Len(fetched) :
        (fetched[i].raised /\ fetched[i].fn \in {"batch", "apify"})
        => /\ Count(fetched[i].calls, "error") = 1
           /\ Count(fetched[i].calls, "success") = 0
           /\ fetched[i].returned = <<>>

\* C8: a fetcher attempt in which every request times out, raises or answers
\* non-200 is recorded as an error of its source (an entry in the error list,
\* success=false in the run's record), never as a success.
C8_FailedRequestsRecordedAsError ==
    \A i \in 1..Len(fetched) :
        fetched[i].all_failed
        => /\ fetched[i].errors_added = 1
           /\ Count(fetched[i].calls, "success") = 0
           /\ Len(fetched[i].run_entry) = 1
           /\ fetched[i].run_entry[1].success = FALSE

(***************************************************************************)
(* Claims about identity resolution.                                       *)
(***************************************************************************)
\* The venues, by position in the directory, whose name matches the name.
Matching(n) ==
    {i \in 1..Len(SYDNEY_VENUES) :
        \/ Contains(VenueNameLower(SYDNEY_VENUES[i].name), n)
        \/ Contains(n, VenueNameLower(SYDNEY_VENUES[i].name))}

FirstMatchWins(name) ==
    LET n == Strip(Lower(name))
    IN  IF n \in DOMAIN BREWERY_NAME_TO_VENUE_ID THEN BREWERY_NAME_TO_VENUE_ID[n]
        ELSE IF Matching(n) # {}
          THEN SYDNEY_VENUES[CHOOSE i \in Matching(n) : \A j \in Matching(n) : i <= j].id
        ELSE Slug(n)

ProducerOf(beer) == beer.key[3]

\* C14 (as stated): the venue id of every producer name is the alias of the
\* lower-cased trimmed name, else the first venue in directory order whose
\* name contains or is contained in it, else the slug of the name.
C14_ResolutionIsFirstMatch ==
    \A i \in 1..Len(beers) : beers[i].brewery_id = FirstMatchWins(ProducerOf(beers[i]))

\* The name is an alias key, and a venue other than the one of the alias
\* matches it by substring.
AliasAndOtherMatch(name) ==
    LET n == Strip(Lower(name))
    IN  /\ n \in DOMAIN BREWERY_NAME_TO_VENUE_ID
        /\ \E i \in Matching(n) : SYDNEY_VENUES[i].id # BREWERY_NAME_TO_VENUE_ID[n]

\* C14 (amended): the empty producer name resolves to 'unknown'; every other
\* name resolves by alias, then first substring match in directory order,
\* then slug; an alias hit is returned also when another venue matches the
\* name by substring.
C14_ResolutionIsFirstMatchOrUnknown ==
    \A i \in 1..Len(beers) :
        /\ beers[i].brewery_id =
              IF ProducerOf(beers[i]) = "" THEN "unknown"
              ELSE FirstMatchWins(ProducerOf(beers[i]))
        /\ AliasAndOtherMatch(ProducerOf(beers[i])) =>
              beers[i].brewery_id =
                  BREWERY_NAME_TO_VENUE_ID[Strip(Lower(ProducerOf(beers[i])))]

\* The load returned a beer whose producer matches two venues by substring
\* and takes the first in directory order, and a beer whose producer is an
\* alias key that two other venues match by substring and takes the alias.
C14_Witness ==
    /\ \E i \in 1..Len(beers) :
         /\ ProducerOf(beers[i]) = "JB & Sons Manly"
         /\ Cardinality(Matching(Strip(Lower(ProducerOf(beers[i]))))) = 2
         /\ beers[i].brewery_id = "jb-and-sons"
    /\ \E i \in 1..Len(beers) :
         /\ ProducerOf(beers[i]) = "Mountain Culture"
         /\ AliasAndOtherMatch(ProducerOf(beers[i]))
         /\ Cardinality(Matching(Strip(Lower(ProducerOf(beers[i]))))) = 3
         /\ beers[i].brewery_id = "mountain-culture"

(***************************************************************************)
(* Claims about the summary and the end of a run.                          *)
(***************************************************************************)
\* The lifetime rate successes/attempts (0 without attempts) is above 50%.
RateOverFiftyPercent(e) == e.attempts # 0 /\ 2 * e.successes > e.attempts

\* C15: in every summary, a source is 'active' iff its lifetime success rate
\* is above 50%, 'struggling' iff the rate is at most 50% and attempts > 5,
\* and 'new' otherwise; the counts are those of the ledger.
C15_StatusFollowsRateAndAttempts ==
    /\ summary # <<>> =>
         \A s \in DOMAIN summary[1].sources :
            LET e == summary[1].sources[s]
            IN  /\ e.status = "active" <=> RateOverFiftyPercent(e)
                /\ e.status = "struggling" <=> (~RateOverFiftyPercent(e) /\ e.attempts > 5)
                /\ e.status = "new" <=> (~RateOverFiftyPercent(e) /\ e.attempts <= 5)
    /\ last_call.op = "summary" =>
         /\ DOMAIN summary[1].sources = DOMAIN metrics.sources
         /\ \A s \in DOMAIN metrics.sources :
              /\ summary[1].sources[s].attempts = metrics.sources[s].attempts
              /\ summary[1].sources[s].successes = metrics.sources[s].successes

\* A summary of a source attempted six times with a rate of exactly 50%.
C15_Witness ==
    /\ last_call.op = "summary"
    /\ \E s \in DOMAIN summary[1].sources :
         /\ summary[1].sources[s].attempts = 6
         /\ summary[1].sources[s].successes = 3
         /\ summary[1].sources[s].status = "struggling"

\* The sources of the first run of main() over an empty ledger that were
\* attempted once and succeeded with one item.
OnceWithOneItem ==
    {i \in 1..Len(fetched) :
        /\ fetched[i].calls = <<"attempt", "success">>
        /\ Len(fetched[i].returned) = 1
        /\ \A j \in 1..Len(fetched) : fetched[j].source = fetched[i].source => j = i}

FirstRunClosed == pc = "done" /\ run_no = 1

\* C16 (as stated): after such a run the summary shows the source with
\* attempts=1, successes=1, items_found=1 and status 'new'.
C16_OneSuccessIsNew ==
    FirstRunClosed =>
        \A i \in OnceWithOneItem :
            LET e == summary[1].sources[fetched[i].source]
            IN  /\ e.attempts = 1 /\ e.successes = 1 /\ e.items_found = 1
                /\ e.status = "new"

\* C16 (amended): after such a run the summary shows the source with
\* attempts=1, successes=1, items_found=1 and status 'active'.
C16_OneSuccessIsActive ==
    FirstRunClosed =>
        \A i \in OnceWithOneItem :
            LET e == summary[1].sources[fetched[i].source]
            IN  /\ e.attempts = 1 /\ e.successes = 1 /\ e.items_found = 1
                /\ e.status = "active"

C16_Witness ==
    /\ FirstRunClosed
    /\ OnceWithOneItem # {}
    /\ \E i \in OnceWithOneItem : summary[1].sources[fetched[i].source].items_found = 1

\* C18: once the merged output is saved, the end of the run cannot fail: a
\* failing write of the cache or of the ledger is swallowed, main() ends
\* normally and the RunRecord of the run is closed.
C18_WriteFailureDoesNotFailRun ==
    [][pc = "end" =>
         /\ pc' = "done"
         /\ current_run' = <<>>
         /\ ended_log' = Append(ended_log, current_run[1].started_at)]_vars

(***************************************************************************)
(* Claims about the new window.                                            *)
(***************************************************************************)
InNewReleases(beer, all_beers, t) ==
    \E j \in 1..Len(get_new_releases(all_beers, NewWindowDays, t)) :
        get_new_releases(all_beers, NewWindowDays, t)[j] = beer

\* C17: at every load a beer is flagged new iff the time elapsed since its
\* first-seen time is at most 7 days (7 days and 12 hours is not new), and
\* the flag agrees with the 7-day release-date cutoff of get_new_releases.
C17_NewIffWithinSevenDays ==
    [][loads' = loads + 1 =>
         \A i \in 1..Len(beers') :
            /\ beers'[i].is_new_release
                 <=> (today - beers'[i].release_date <= timedelta_days(NewWindowDays))
            /\ beers'[i].is_new_release <=> InNewReleases(beers'[i], beers', today)]_vars

(***************************************************************************)
(* Claims about the detail enrichment of the Untappd fetcher.              *)
(***************************************************************************)
AutoVenues == load_auto_venues(auto_venues_file)

\* The detail lookups of the current run, venue after venue, those of the
\* venue page under way included.
RECURSIVE LookupsOf(_, _)
LookupsOf(log, n) ==
    IF n = 0 THEN <<>>
    ELSE LookupsOf(log, n - 1)
         \o (IF log[n].fn = "untappd" THEN log[n].lookups ELSE <<>>)

Lookups ==
    LookupsOf(fetched, Len(fetched))
    \o (IF scraping = <<>> THEN <<>> ELSE scraping[1].lookups)

\* The lookups that requested the page and got details.
PageLookups == SelectSeq(Lookups, LAMBDA l : l.fetched /\ l.beer_details # <<>>)

\* The Identity Resolver finds no known venue for the name.
Unresolved(brewery_name) == map_brewery_to_venue_id(brewery_name) \notin existing_ids

HasRegionKeyword(location_text) == KeywordsIn(Lower(location_text)) # {}

\* C11: every auto-discovered venue is recorded for a producer name that the
\* Identity Resolver does not resolve to a known venue.
C11_DiscoveredOnlyWhenUnresolved ==
    \A id \in DOMAIN AutoVenues : Unresolved(AutoVenues[id].name)

\* C12: no auto-discovered venue has a location without a region keyword, a
\* page whose location has none registers nothing, and a page of an
\* unresolved producer whose location has one leaves an entry of its slug
\* with status pending_review.
C12_RegionKeywordDecidesDiscovery ==
    /\ \A id \in DOMAIN AutoVenues : HasRegionKeyword(AutoVenues[id].location)
    /\ \A i \in 1..Len(PageLookups) :
         LET l == PageLookups[i]
             d == l.beer_details[1]
         IN  /\ ~HasRegionKeyword(d.brewery_location) => l.registered = "none"
             /\ Unresolved(d.brewery) /\ HasRegionKeyword(d.brewery_location) =>
                  /\ brewery_slug(d.brewery) \in DOMAIN AutoVenues
                  /\ AutoVenues[brewery_slug(d.brewery)].status = "pending_review"
                  /\ AutoVenues[brewery_slug(d.brewery)].name = d.brewery

\* The step is one iteration of the loop over the checkins whose beer page
\* was fetched and called add_new_sydney_venue (the slug of the producer is
\* no venue id and the location is in the region) for a slug that
\* auto_discovered_venues.json held before the step.
ReRegistration ==
    /\ scraping # <<>>
    /\ scraping' # <<>>
    /\ Len(scraping'[1].lookups) = Len(scraping[1].lookups) + 1
    /\ LET l == scraping'[1].lookups[Len(scraping'[1].lookups)]
       IN  /\ l.fetched
           /\ l.beer_details # <<>>
           /\ brewery_slug(l.beer_details[1].brewery) \notin existing_ids
           /\ HasRegionKeyword(l.beer_details[1].brewery_location)
           /\ brewery_slug(l.beer_details[1].brewery) \in DOMAIN AutoVenues

\* C13: a call of add_new_sydney_venue for a producer whose slug is already
\* in auto_discovered_venues.json leaves the file as it was: the same
\* entries, with the same discovered_at and status, however many times
\* the producer is registered again.
C13_ReRegistrationIsNoOp ==
    [][ReRegistration => auto_venues_file' = auto_venues_file]_vars

\* A producer was registered by a page of one venue, and registered again
\* by a later page of that venue and by a page of another venue; its entry
\* is the one the first registration wrote.
C13_Witness ==
    \E i, j, k \in 1..Len(PageLookups) :
        /\ i < j /\ j < k
        /\ PageLookups[i].registered = "added"
        /\ PageLookups[j].registered = "known"
        /\ PageLookups[k].registered = "known"
        /\ PageLookups[i].beer_details[1].brewery = PageLookups[j].beer_details[1].brewery
        /\ PageLookups[i].beer_details[1].brewery = PageLookups[k].beer_details[1].brewery
        /\ PageLookups[j].venue_id = PageLookups[i].venue_id
        /\ PageLookups[k].venue_id # PageLookups[i].venue_id
        /\ AutoVenues[brewery_slug(PageLookups[i].beer_details[1].brewery)]
             = NewVenue(PageLookups[i].beer_details[1].brewery,
                        PageLookups[i].beer_details[1].brewery_location,
                        PageLookups[i].t)

\* The required fields of a cached entry: name, style, producer.
Incomplete(d) == d.name = "" \/ d.style = "" \/ d.brewery = ""

\* C19: a lookup that finds an entry with an empty required field in the
\* cache requests the page again; only complete entries are cache hits.
C19_IncompleteEntriesAreRefetched ==
    \A i \in 1..Len(Lookups) :
        Lookups[i].cached # <<>> /\ Incomplete(Lookups[i].cached[1])
            => Lookups[i].fetched

\* C20: while the run goes on after a venue, and when it has crashed, every
\* entry of the in-memory cache is in the persisted cache.
C20_CachePersistedIncrementally ==
    pc \in {"untappd", "crashed"} =>
        \A i \in 1..Len(beer_cache) :
            \E j \in 1..Len(load_json(beer_details_file)) :
                load_json(beer_details_file)[j] = beer_cache[i]

(***************************************************************************)
(* Claims about the counts the fetchers report.                            *)
(***************************************************************************)
\* C24: a website fetcher that ended on its happy path reported to the
\* ledger as many items as it returned to main(): the items of its entry of
\* the run are the length of the list it returned.
C24_ReportedCountIsReturnedCount ==
    \A i \in 1..Len(fetched) :
        fetched[i].fn \in {"mountain", "generic"} /\ ~fetched[i].raised
            => /\ fetched[i].run_entry # <<>>
               /\ fetched[i].run_entry[1].items = Len(fetched[i].returned)

(***************************************************************************)
(* Claims about the content hash.                                          *)
(***************************************************************************)
\* The content with every run of whitespace collapsed to one space.
CollapseWhitespace(content) ==
    CASE content = "Fresh  Hazy IPA out now" -> "Fresh Hazy IPA out now"
      [] content = ":beer: Fresh  Hazy IPA out now" -> ":beer: Fresh Hazy IPA out now"
      [] content = ":beer: Fresh  Hazy IPA out now - scraped from website" ->
           ":beer: Fresh Hazy IPA out now - scraped from website"
      [] OTHER -> content

\* C21: two collected items whose contents are equal once whitespace runs
\* are collapsed have the same content hash and give one output item, and
\* two items whose collapsed contents differ (in letter case too) have
\* different hashes.
C21_HashIsOverCollapsedContent ==
    /\ \A i, j \in 1..Len(all_posts) :
         (CollapseWhitespace(all_posts[i].content)
            = CollapseWhitespace(all_posts[j].content))
         <=> (get_content_hash(all_posts[i].content)
                = get_content_hash(all_posts[j].content))
    /\ Deduplicated =>
         \A i, j \in 1..Len(unique_posts) :
             i # j => CollapseWhitespace(unique_posts[i].content)
                        # CollapseWhitespace(unique_posts[j].content)

(***************************************************************************)
(* Claims about the entries of a run record.                               *)
(***************************************************************************)
\* The items the successful attempts of the source reported in the run, over
\* the first n fetcher invocations.
RECURSIVE ReportedItems(_, _, _)
ReportedItems(log, n, source_name) ==
    IF n = 0 THEN 0
    ELSE ReportedItems(log, n - 1, source_name)
         + (IF log[n].source = source_name /\ Count(log[n].calls, "success") > 0
              THEN log[n].run_entry[1].items ELSE 0)

\* C27: in the record of a closed run no source has success = true with an
\* error, and the items of a source are the total its successful attempts
\* reported in the run.
C27_RunEntryIsConsistent ==
    RunClosed =>
        \A source_name \in DOMAIN LastRun.sources :
            LET e == LastRun.sources[source_name]
            IN  /\ ~(e.success /\ e.error # "None")
                /\ e.items = ReportedItems(fetched, Len(fetched), source_name)

(***************************************************************************)
(* Claims about the first-seen history under read errors.                  *)
(***************************************************************************)
StoredHistory == IF Len(beer_history_file) = 1 THEN beer_history_file[1] ELSE EmptyMap

\* C26: a data load leaves the stored first-seen time of every recorded key
\* as it was, also when the history file cannot be read.
C26_LoadKeepsStoredFirstSeen ==
    [][\A key \in DOMAIN StoredHistory :
          /\ key \in DOMAIN StoredHistory'
          /\ StoredHistory'[key] = StoredHistory[key]]_vars

\* C25: while the venues are visited, no lookup requests the page of a URL
\* that has an entry in the persisted cache, or that an earlier lookup of
\* the run fetched and cached.
C25_CachedUrlIsNeverFetched ==
    pc = "untappd" =>
        \A i \in 1..Len(Lookups) :
            Lookups[i].fetched =>
                /\ ~InCache(load_json(beer_details_file), Lookups[i].beer_url)
                /\ \A j \in 1..(i - 1) :
                     Lookups[j].beer_url = Lookups[i].beer_url
                        => Lookups[j].beer_details = <<>>

(***************************************************************************)
(* Claims about the served beer list.                                      *)
(***************************************************************************)
\* C29: no two beers of SYDNEY_BEERS have the same id.
C29_ServedBeerIdsAreUnique ==
    \A i, j \in 1..Len(SYDNEY_BEERS) :
        i # j => SYDNEY_BEERS[i].id # SYDNEY_BEERS[j].id

(***************************************************************************)
(* Claims about manual entries.                                            *)
(***************************************************************************)
ManualBeers(file) ==
    IF Len(file) = 1 /\ "manual_beers" \in DOMAIN file[1]
      THEN {file[1].manual_beers[i] : i \in 1..Len(file[1].manual_beers)}
      ELSE {}

ManualPosts(file) ==
    IF Len(file) = 1 /\ "posts" \in DOMAIN file[1]
      THEN {file[1].posts[i] : i \in {j \in 1..Len(file[1].posts) :
                                        file[1].posts[j].platform = "manual"}}
      ELSE {}

\* A step of a run of main(): the position of main() or the caches it holds
\* change, as they do in every step of main() and in no step of a tool.
StepOfRun ==
    <<pc, idx, vidx, scraping, run_no, untappd_cache>>'
        # <<pc, idx, vidx, scraping, run_no, untappd_cache>>

\* C28: a manual beer and a manual post that dynamic_updates.json holds are
\* still in it after every step of a scraper run.
C28_ManualEntriesSurviveRuns ==
    [][StepOfRun =>
         /\ ManualBeers(data_file) \subseteq ManualBeers(data_file')
         /\ ManualPosts(data_file) \subseteq ManualPosts(data_file')]_vars

(***************************************************************************)
(* Claims about the recency cutoff.                                        *)
(***************************************************************************)
\* C23: no Instagram post that a fetcher returned has a posted-at time that
\* parses and is older than the fetcher's cutoff, with or without a 'Z' or
\* an offset.
C23_NoReturnedPostOlderThanCutoff ==
    \A i \in 1..Len(all_posts) :
        all_posts[i].platform = "instagram" /\ all_posts[i].posted # <<>>
            => all_posts[i].posted[1].age <= ApifyCutoffDays

(***************************************************************************)
(* Claims about the venue id of persisted items.                           *)
(***************************************************************************)
\* The producer that the content of an item names, "" when it names none.
mentioned_producer(content) ==
    CASE content = "Loving the new hazy from Young Henrys" -> "Young Henrys"
      [] content = "[STORY] Loving the new hazy from Young Henrys" -> "Young Henrys"
      [] OTHER -> ""

\* C22: every persisted item that its fetcher returned without a venue id
\* (the Instagram fetchers return venue_id None) and that names a producer
\* carries the venue id that the Identity Resolver gives for that producer.
C22_PersistedVenueIdIsResolved ==
    \A i \in 1..Len(DataPosts) :
        /\ DataPosts[i].platform \in {"instagram", "instagram-story"}
        /\ mentioned_producer(DataPosts[i].content) # ""
        => DataPosts[i].venue_id
             = map_brewery_to_venue_id(mentioned_producer(DataPosts[i].content))

(***************************************************************************)
(* Claims about the venue configuration.                                   *)
(***************************************************************************)
\* C30: when two add_configured_venue calls with different names have both
\* written the configuration, untappd_venues.json holds both slugs.
C30_ConcurrentAddsKeepBothSlugs ==
    \A i, j \in 1..Len(adding) :
        /\ adding[i].step = "written" /\ adding[j].step = "written"
        /\ adding[i].name # adding[j].name
        => /\ untappd_venues_file # <<>>
           /\ {venue_slug(adding[i].name), venue_slug(adding[j].name)}
                \subseteq DOMAIN untappd_venues_file[1].data

====
